---- MODULE Spec2Model ----
(***************************************************************************)
(* Concurrent pipelines of EJERCICIOS_PRACTICOS_PARTE_2.                   *)
(*   EJ1  fan-out / fan-in vowel counters          (src/EJ1/EJ1.py)        *)
(*   EJ2  three-stage IP pipeline                  (src/EJ2/EJ2.py)        *)
(*   EJ3A lock-guarded averaging workers           (src/EJ3/EJ3A.py)       *)
(*   EJ3B pool averaging tasks                     (src/EJ3/EJ3B.py)       *)
(*   EJ4  two-stage film filter                    (src/EJ4/EJ4.py)        *)
(* Each program is a state machine over its own variables; a              *)
(* specification runs one program (or a family of them) and leaves the     *)
(* variables of the others in their idle value.                            *)
(***************************************************************************)
EXTENDS Integers, Sequences, FiniteSets, TLC

(* ------------------------------ bounds --------------------------------- *)
\* largest number of IPs the generator is asked for (N_IPS is 10 in the program)
MaxN == 3
\* messages a pipe holds before send() blocks (the OS pipe buffer)
ChanCap == 2
\* largest number of lines of the film file
MaxLines == 3
\* number of vowels counted (the program counts the five of them)
NVocales == 3
\* number of students of the lock-based variant (N_ALUMNOS is 10 in EJ3A)
N_ALUMNOS == 2
\* number of students of the pool variant (N_ALUMNOS is 10 in EJ3B)
N_ALUMNOS_POOL == 3
\* worker processes of the pool (Pool(processes=4) in EJ3B)
PROCESSES == 2
\* grades per student file (n_notas is 6 in the program)
N_NOTAS == 2

(* ------------------------------ messages ------------------------------- *)
\* the sentinel None
None == [tag |-> "None"]

IsNone(m) == m.tag = "None"

\* number of sentinels in a sequence of messages
RECURSIVE CountNone(_)
CountNone(s) ==
    IF s = <<>> THEN 0
    ELSE (IF IsNone(Head(s)) THEN 1 ELSE 0) + CountNone(Tail(s))

\* the real messages of a sequence, in order
RECURSIVE Items(_)
Items(s) ==
    IF s = <<>> THEN <<>>
    ELSE IF IsNone(Head(s)) THEN Items(Tail(s))
         ELSE <<Head(s)>> \o Items(Tail(s))

\* Connection.send: possible while the pipe buffer has room
CanSend(ch) == Len(ch) < ChanCap

\* Connection.recv: "msg" when a message is buffered, "eof" when the buffer
\* is empty and no send handle is open any more, "block" otherwise
RecvOutcome(ch, senders) ==
    IF ch # <<>> THEN "msg"
    ELSE IF senders = {} THEN "eof"
    ELSE "block"

VARIABLES
    \* EJ2
    pc2, n2, cap2, ch12, ch23, item2, open2, hist12, hist23, rcv2, rcv3, out2,
    \* EJ4
    pc4, peliculas, anyo4, pos4, item4, ch4, open4, hist4, rcv4, salida4, fallo4,
    \* EJ1
    pc1, k1, pcw1, fin1, conteo1, env1, ch1, open1, texto1, resultados, informe, orden1,
    \* the files of EJ3A and EJ3B
    archivos, medias,
    \* EJ3A
    pc3, i3, pcg3, pcm3, fin3, media3, lock, pcmax, maximo,
    \* EJ3B
    pc3b, archivosB, mediasB, cola, poolw, resultados_gen, resultados_med, finB, pcmaxB, maximoB,
    ejecB

vars2 == <<pc2, n2, cap2, ch12, ch23, item2, open2, hist12, hist23, rcv2, rcv3, out2>>
vars4 == <<pc4, peliculas, anyo4, pos4, item4, ch4, open4, hist4, rcv4, salida4, fallo4>>
vars1 == <<pc1, k1, pcw1, fin1, conteo1, env1, ch1, open1, texto1, resultados, informe, orden1>>
varsF == <<archivos, medias>>
vars3 == <<pc3, i3, pcg3, pcm3, fin3, media3, lock, pcmax, maximo>>
vars3b == <<pc3b, archivosB, mediasB, cola, poolw, resultados_gen, resultados_med, finB, pcmaxB, maximoB, ejecB>>
vars == <<vars2, vars4, vars1, varsF, vars3, vars3b>>

(***************************************************************************)
(* EJ2: generar_ips -> filtrar_ips -> imprimir_ips                          *)
(***************************************************************************)
\* first octets the generator may draw (random.randint(1, 254)), one per
\* class and the loopback value
OctetSamples == {1, 127, 128, 192, 224, 240}

\* an IP is its four octets; '.'.join(octetos)
IPs == {<<a, 1, 1, 1>> : a \in OctetSamples}

\* clase_ip: the class of an IP from its first octet, int(ip.split('.')[0]);
\* "null" stands for the None of a reserved or invalid address
clase_ip_127(ip) ==
    LET primer == ip[1] IN
    IF 1 <= primer /\ primer <= 127 THEN "A"
    ELSE IF 128 <= primer /\ primer <= 191 THEN "B"
    ELSE IF 192 <= primer /\ primer <= 223 THEN "C"
    ELSE IF 224 <= primer /\ primer <= 239 THEN "D"
    ELSE IF 240 <= primer /\ primer <= 254 THEN "E"
    ELSE "null"

clase_ip(ip) ==
    LET primer == ip[1] IN
    IF 1 <= primer /\ primer <= 126 /\ primer # 127 THEN "A"
    ELSE IF 128 <= primer /\ primer <= 191 THEN "B"
    ELSE IF 192 <= primer /\ primer <= 223 THEN "C"
    ELSE IF 224 <= primer /\ primer <= 239 THEN "D"
    ELSE IF 240 <= primer /\ primer <= 254 THEN "E"
    ELSE "null"

\* the messages of the two pipes: an ip string, and the tuple (ip, cl)
MsgIP(ip) == [tag |-> "ip", ip |-> ip]
MsgPar(ip, cl) == [tag |-> "par", ip |-> ip, cl |-> cl]

Procs2 == {"main", "p1", "p2", "p3"}

\* a send on a pipe of the IP pipeline returns when the pipe has room: the
\* capacity of its pipes, in messages, is any value from one up
CabeEnMenos(ch, cap) == Len(ch) < cap - 1

CabeEn(ch, cap) == Len(ch) < cap

Idle2 ==
    /\ pc2 = [p \in Procs2 |-> "idle"]
    /\ n2 = 0
    /\ cap2 = 0
    /\ ch12 = <<>> /\ ch23 = <<>>
    /\ item2 = None
    /\ open2 = {}
    /\ hist12 = <<>> /\ hist23 = <<>>
    /\ rcv2 = <<>> /\ rcv3 = <<>>
    /\ out2 = <<>>

\* state after the two Pipe(duplex=False) and the three Process(...) calls
Init2 ==
    /\ pc2 = [p \in Procs2 |-> IF p = "main" THEN "start_p2" ELSE "created"]
    /\ n2 \in 0..MaxN
    /\ cap2 \in 1..ChanCap
    /\ ch12 = <<>> /\ ch23 = <<>>
    /\ item2 = None
    /\ open2 = {<<"main", "send_p1">>, <<"main", "recv_p2">>,
                <<"main", "send_p2">>, <<"main", "recv_p3">>}
    /\ hist12 = <<>> /\ hist23 = <<>>
    /\ rcv2 = <<>> /\ rcv3 = <<>>
    /\ out2 = <<>>

\* processes holding an open handle of an endpoint
Holders2(e) == {p \in Procs2 : <<p, e>> \in open2}

\* the process started by each of the three start steps of main, in the
\* order of the code: p2.start(); p3.start(); p1.start()
Arranca2Fuente(paso) ==
    CASE paso = "start_p2" -> "p1"
      [] paso = "start_p3" -> "p2"
      [] OTHER -> "p3"

Arranca2(paso) ==
    CASE paso = "start_p2" -> "p2"
      [] paso = "start_p3" -> "p3"
      [] OTHER -> "p1"

\* main: p2.start(); p3.start(); p1.start()
Main2Start ==
    /\ pc2["main"] \in {"start_p2", "start_p3", "start_p1"}
    /\ LET p == Arranca2(pc2["main"])
           nxt == CASE pc2["main"] = "start_p2" -> "start_p3"
                    [] pc2["main"] = "start_p3" -> "start_p1"
                    [] OTHER -> "close_send_p1"
           ends == CASE p = "p1" -> {<<"p1", "send_p1">>}
                     [] p = "p2" -> {<<"p2", "recv_p2">>, <<"p2", "send_p2">>}
                     [] OTHER -> {<<"p3", "recv_p3">>}
       IN /\ pc2' = [pc2 EXCEPT !["main"] = nxt, ![p] = "run"]
          /\ open2' = open2 \cup ends
    /\ UNCHANGED <<cap2, n2, ch12, ch23, item2, hist12, hist23, rcv2, rcv3, out2>>
    /\ UNCHANGED <<vars4, vars1, varsF, vars3, vars3b>>

\* main: send_p1.close(); recv_p2.close(); send_p2.close(); recv_p3.close()
Main2Close ==
    /\ pc2["main"] \in {"close_send_p1", "close_recv_p2", "close_send_p2", "close_recv_p3"}
    /\ LET e == CASE pc2["main"] = "close_send_p1" -> "send_p1"
                  [] pc2["main"] = "close_recv_p2" -> "recv_p2"
                  [] pc2["main"] = "close_send_p2" -> "send_p2"
                  [] OTHER -> "recv_p3"
           nxt == CASE pc2["main"] = "close_send_p1" -> "close_recv_p2"
                    [] pc2["main"] = "close_recv_p2" -> "close_send_p2"
                    [] pc2["main"] = "close_send_p2" -> "close_recv_p3"
                    [] OTHER -> "join_p1"
       IN /\ pc2' = [pc2 EXCEPT !["main"] = nxt]
          /\ open2' = open2 \ {<<"main", e>>}
    /\ UNCHANGED <<cap2, n2, ch12, ch23, item2, hist12, hist23, rcv2, rcv3, out2>>
    /\ UNCHANGED <<vars4, vars1, varsF, vars3, vars3b>>

\* main: p1.join(); p2.join(); p3.join()
Main2Join ==
    /\ pc2["main"] \in {"join_p1", "join_p2", "join_p3"}
    /\ LET p == CASE pc2["main"] = "join_p1" -> "p1"
                  [] pc2["main"] = "join_p2" -> "p2"
                  [] OTHER -> "p3"
           nxt == CASE pc2["main"] = "join_p1" -> "join_p2"
                    [] pc2["main"] = "join_p2" -> "join_p3"
                    [] OTHER -> "done"
       IN /\ pc2[p] \in {"exited", "crashed"}
          /\ pc2' = [pc2 EXCEPT !["main"] = nxt]
    /\ UNCHANGED <<cap2, n2, ch12, ch23, item2, open2, hist12, hist23, rcv2, rcv3, out2>>
    /\ UNCHANGED <<vars4, vars1, varsF, vars3, vars3b>>

\* generar_ips: one iteration of the loop, conn_send.send(ip)
P1Send ==
    /\ pc2["p1"] = "run"
    /\ Len(Items(hist12)) < n2
    /\ CabeEn(ch12, cap2)
    /\ \E ip \in IPs :
          /\ ch12' = Append(ch12, MsgIP(ip))
          /\ hist12' = Append(hist12, MsgIP(ip))
    /\ UNCHANGED <<pc2, cap2, n2, ch23, item2, open2, hist23, rcv2, rcv3, out2>>
    /\ UNCHANGED <<vars4, vars1, varsF, vars3, vars3b>>

\* what generar_ips sends once its loop is over
SentinelP1Dos == <<None, None>>

SentinelP1 == <<None>>

\* generar_ips: conn_send.send(None)
P1Sentinel ==
    /\ pc2["p1"] = "run"
    /\ Len(Items(hist12)) = n2
    /\ CabeEn(ch12, cap2)
    /\ ch12' = ch12 \o SentinelP1
    /\ hist12' = hist12 \o SentinelP1
    /\ pc2' = [pc2 EXCEPT !["p1"] = "close"]
    /\ UNCHANGED <<cap2, n2, ch23, item2, open2, hist23, rcv2, rcv3, out2>>
    /\ UNCHANGED <<vars4, vars1, varsF, vars3, vars3b>>

\* generar_ips: conn_send.close()
P1Close ==
    /\ pc2["p1"] = "close"
    /\ open2' = open2 \ {<<"p1", "send_p1">>}
    /\ pc2' = [pc2 EXCEPT !["p1"] = "exited"]
    /\ UNCHANGED <<cap2, n2, ch12, ch23, item2, hist12, hist23, rcv2, rcv3, out2>>
    /\ UNCHANGED <<vars4, vars1, varsF, vars3, vars3b>>

\* where filtrar_ips goes after receiving m
FiltrarSiguienteSinFin(m) ==
    IF IsNone(m) THEN "run"
    ELSE IF clase_ip(m.ip) \in {"A", "B", "C"} THEN "send"
    ELSE "run"

FiltrarSiguiente(m) ==
    IF IsNone(m) THEN "sentinel"
    ELSE IF clase_ip(m.ip) \in {"A", "B", "C"} THEN "send"
    ELSE "run"

\* filtrar_ips: ip = conn_recv.recv(), the sentinel test and the class test
P2Recv ==
    /\ pc2["p2"] = "run"
    /\ RecvOutcome(ch12, Holders2("send_p1")) = "msg"
    /\ LET m == Head(ch12) IN
          /\ ch12' = Tail(ch12)
          /\ rcv2' = Append(rcv2, m)
          /\ pc2' = [pc2 EXCEPT !["p2"] = FiltrarSiguiente(m)]
          /\ item2' = IF IsNone(m) THEN None ELSE MsgPar(m.ip, clase_ip(m.ip))
    /\ UNCHANGED <<cap2, n2, ch23, open2, hist12, hist23, rcv3, out2>>
    /\ UNCHANGED <<vars4, vars1, varsF, vars3, vars3b>>

\* filtrar_ips: conn_send.send((ip, cl))
P2Send ==
    /\ pc2["p2"] = "send"
    /\ CabeEn(ch23, cap2)
    /\ ch23' = Append(ch23, item2)
    /\ hist23' = Append(hist23, item2)
    /\ item2' = None
    /\ pc2' = [pc2 EXCEPT !["p2"] = "run"]
    /\ UNCHANGED <<cap2, n2, ch12, open2, hist12, rcv2, rcv3, out2>>
    /\ UNCHANGED <<vars4, vars1, varsF, vars3, vars3b>>

\* filtrar_ips: conn_send.send(None) after the loop
P2Sentinel ==
    /\ pc2["p2"] = "sentinel"
    /\ CabeEn(ch23, cap2)
    /\ ch23' = Append(ch23, None)
    /\ hist23' = Append(hist23, None)
    /\ pc2' = [pc2 EXCEPT !["p2"] = "close"]
    /\ UNCHANGED <<cap2, n2, ch12, item2, open2, hist12, rcv2, rcv3, out2>>
    /\ UNCHANGED <<vars4, vars1, varsF, vars3, vars3b>>

\* filtrar_ips: conn_recv.close(); conn_send.close()
P2Close ==
    /\ pc2["p2"] = "close"
    /\ open2' = open2 \ {<<"p2", "recv_p2">>, <<"p2", "send_p2">>}
    /\ pc2' = [pc2 EXCEPT !["p2"] = "exited"]
    /\ UNCHANGED <<cap2, n2, ch12, ch23, item2, hist12, hist23, rcv2, rcv3, out2>>
    /\ UNCHANGED <<vars4, vars1, varsF, vars3, vars3b>>

\* imprimir_ips: item = conn_recv.recv(); the sentinel ends the loop, any
\* other item is unpacked and printed
P3Recv ==
    /\ pc2["p3"] = "run"
    /\ RecvOutcome(ch23, Holders2("send_p2")) = "msg"
    /\ LET m == Head(ch23) IN
          /\ ch23' = Tail(ch23)
          /\ rcv3' = Append(rcv3, m)
          /\ out2' = IF IsNone(m) THEN out2 ELSE Append(out2, <<m.ip, m.cl>>)
          /\ pc2' = [pc2 EXCEPT !["p3"] = IF IsNone(m) THEN "close" ELSE "run"]
    /\ UNCHANGED <<cap2, n2, ch12, item2, open2, hist12, hist23, rcv2>>
    /\ UNCHANGED <<vars4, vars1, varsF, vars3, vars3b>>

\* imprimir_ips: conn_recv.close()
P3Close ==
    /\ pc2["p3"] = "close"
    /\ open2' = open2 \ {<<"p3", "recv_p3">>}
    /\ pc2' = [pc2 EXCEPT !["p3"] = "exited"]
    /\ UNCHANGED <<cap2, n2, ch12, ch23, item2, hist12, hist23, rcv2, rcv3, out2>>
    /\ UNCHANGED <<vars4, vars1, varsF, vars3, vars3b>>

\* generar_ips ends before its conn_send.send(None): the process is
\* terminated from outside, and its handle is closed with it
P1Termina ==
    /\ pc2["p1"] = "run"
    /\ open2' = open2 \ {<<"p1", "send_p1">>}
    /\ pc2' = [pc2 EXCEPT !["p1"] = "exited"]
    /\ UNCHANGED <<cap2, n2, ch12, ch23, item2, hist12, hist23, rcv2, rcv3, out2>>
    /\ UNCHANGED <<vars4, vars1, varsF, vars3, vars3b>>

\* filtrar_ips: conn_recv.recv() raises EOFError, which nothing catches:
\* the process ends with the exception and its handles are closed with it
P2Eof ==
    /\ pc2["p2"] = "run"
    /\ RecvOutcome(ch12, Holders2("send_p1")) = "eof"
    /\ open2' = open2 \ {<<"p2", "recv_p2">>, <<"p2", "send_p2">>}
    /\ pc2' = [pc2 EXCEPT !["p2"] = "crashed"]
    /\ UNCHANGED <<cap2, n2, ch12, ch23, item2, hist12, hist23, rcv2, rcv3, out2>>
    /\ UNCHANGED <<vars4, vars1, varsF, vars3, vars3b>>

\* imprimir_ips: conn_recv.recv() raises EOFError, which nothing catches
P3Eof ==
    /\ pc2["p3"] = "run"
    /\ RecvOutcome(ch23, Holders2("send_p2")) = "eof"
    /\ open2' = open2 \ {<<"p3", "recv_p3">>}
    /\ pc2' = [pc2 EXCEPT !["p3"] = "crashed"]
    /\ UNCHANGED <<cap2, n2, ch12, ch23, item2, hist12, hist23, rcv2, rcv3, out2>>
    /\ UNCHANGED <<vars4, vars1, varsF, vars3, vars3b>>

Next2 ==
    \/ Main2Start \/ Main2Close \/ Main2Join
    \/ P1Send \/ P1Sentinel \/ P1Close
    \/ P2Recv \/ P2Send \/ P2Sentinel \/ P2Close
    \/ P3Recv \/ P3Close

(***************************************************************************)
(* EJ4: proceso_filtrar_por_anyo -> proceso_escribir_peliculas              *)
(***************************************************************************)
\* a line of the film file is the list of its ';'-separated fields, each
\* already stripped: linea.strip(), [p.strip() for p in linea.split(';')]
LineSamples ==
    { <<"">>,                      \* blank line
      <<"T1", "1999", "x">>,       \* two separators
      <<"T1", "abc">>,             \* year is not a number
      <<"T1", "1999">>,
      <<"T2", "01999">>,
      <<"T2", "2001">> }

\* years the user may have typed in (validated by validar_anyo_input)
Anyos == {1999}

\* int(anyo_str): -1 stands for ValueError
ParseInt(s) ==
    CASE s = "1999" -> 1999
      [] s = "01999" -> 1999
      [] s = "2001" -> 2001
      [] OTHER -> -1

\* the {anyo} of an f-string
IntToStr(n) ==
    CASE n = 1999 -> "1999"
      [] n = 2001 -> "2001"
      [] OTHER -> "?"

\* f"{titulo};{anyo}"
MsgPeli(titulo, anyo) == [tag |-> "peli", titulo |-> titulo, anyo |-> IntToStr(anyo)]

\* the body of the loop over the lines: TRUE when the line is sent on
Envia(partes, objetivo) ==
    /\ partes # <<"">>
    /\ Len(partes) = 2
    /\ ParseInt(partes[2]) # -1
    /\ ParseInt(partes[2]) = objetivo

\* all sequences over S of length at most n
SeqsUpTo(S, n) == UNION {[1..k -> S] : k \in 0..n}

Procs4 == {"main", "p1", "p2"}

Idle4 ==
    /\ pc4 = [p \in Procs4 |-> "idle"]
    /\ peliculas = <<>>
    /\ anyo4 = 0
    /\ pos4 = 0
    /\ item4 = None
    /\ ch4 = <<>>
    /\ open4 = {}
    /\ hist4 = <<>> /\ rcv4 = <<>>
    /\ salida4 = <<>>
    /\ fallo4 = "no"

\* state after Pipe(duplex=False) and the two Process(...) calls; the year
\* has been validated and the file has been seen to exist
Init4 ==
    /\ pc4 = [p \in Procs4 |-> IF p = "main" THEN "start_p2" ELSE "created"]
    /\ peliculas \in SeqsUpTo(LineSamples, MaxLines)
    /\ anyo4 \in Anyos
    /\ pos4 = 0
    /\ item4 = None
    /\ ch4 = <<>>
    /\ open4 = {<<"main", "conn_recv">>, <<"main", "conn_send">>}
    /\ hist4 = <<>> /\ rcv4 = <<>>
    /\ salida4 = <<>>
    /\ fallo4 = "no"

Holders4(e) == {p \in Procs4 : <<p, e>> \in open4}

\* main: p2.start(); p1.start()
Main4Start ==
    /\ pc4["main"] \in {"start_p2", "start_p1"}
    /\ LET p == IF pc4["main"] = "start_p2" THEN "p2" ELSE "p1"
           nxt == IF pc4["main"] = "start_p2" THEN "start_p1" ELSE "close_send"
           e == IF p = "p2" THEN "conn_recv" ELSE "conn_send"
       IN /\ pc4' = [pc4 EXCEPT !["main"] = nxt, ![p] = "run"]
          /\ open4' = open4 \cup {<<p, e>>}
    /\ UNCHANGED <<peliculas, anyo4, pos4, item4, ch4, hist4, rcv4, salida4, fallo4>>
    /\ UNCHANGED <<vars2, vars1, varsF, vars3, vars3b>>

\* main: conn_send.close(); conn_recv.close()
Main4Close ==
    /\ pc4["main"] \in {"close_send", "close_recv"}
    /\ LET e == IF pc4["main"] = "close_send" THEN "conn_send" ELSE "conn_recv"
           nxt == IF pc4["main"] = "close_send" THEN "close_recv" ELSE "join_p1"
       IN /\ pc4' = [pc4 EXCEPT !["main"] = nxt]
          /\ open4' = open4 \ {<<"main", e>>}
    /\ UNCHANGED <<peliculas, anyo4, pos4, item4, ch4, hist4, rcv4, salida4, fallo4>>
    /\ UNCHANGED <<vars2, vars1, varsF, vars3, vars3b>>

\* main: p1.join(); p2.join()
Main4Join ==
    /\ pc4["main"] \in {"join_p1", "join_p2"}
    /\ LET p == IF pc4["main"] = "join_p1" THEN "p1" ELSE "p2"
           nxt == IF pc4["main"] = "join_p1" THEN "join_p2" ELSE "done"
       IN /\ pc4[p] = "exited"
          /\ pc4' = [pc4 EXCEPT !["main"] = nxt]
    /\ UNCHANGED <<peliculas, anyo4, pos4, item4, ch4, open4, hist4, rcv4, salida4, fallo4>>
    /\ UNCHANGED <<vars2, vars1, varsF, vars3, vars3b>>

\* what open(ruta_fichero, 'r') can do: the file may have been removed since
\* main saw it ("notfound", FileNotFoundError) or be unreadable ("error")
OpenOutcomes == {"ok", "notfound", "error"}

\* where proceso_filtrar_por_anyo continues once an exception has been caught:
\* the handlers only print, so the sentinel is sent next
TrasFalloSinSentinel == "close"

TrasFallo == "sentinel"

\* proceso_filtrar_por_anyo: open(ruta_fichero, 'r', encoding='utf-8')
F4Open ==
    /\ pc4["p1"] = "run"
    /\ \E r \in OpenOutcomes :
          /\ fallo4' = IF r = "ok" THEN "no" ELSE r
          /\ pc4' = [pc4 EXCEPT !["p1"] = IF r = "ok" THEN "read" ELSE TrasFallo]
    /\ UNCHANGED <<peliculas, anyo4, pos4, item4, ch4, open4, hist4, rcv4, salida4>>
    /\ UNCHANGED <<vars2, vars1, varsF, vars3, vars3b>>

\* proceso_filtrar_por_anyo: the next line of the file is read and tested;
\* the read may raise (caught by "except Exception"), which ends the loop
F4Read ==
    /\ pc4["p1"] = "read"
    /\ pos4 < Len(peliculas)
    /\ \E falla \in BOOLEAN :
          IF falla
          THEN /\ fallo4' = "error"
               /\ pc4' = [pc4 EXCEPT !["p1"] = TrasFallo]
               /\ UNCHANGED <<pos4, item4>>
          ELSE LET partes == peliculas[pos4 + 1] IN
               /\ pos4' = pos4 + 1
               /\ IF Envia(partes, anyo4)
                  THEN /\ item4' = MsgPeli(partes[1], ParseInt(partes[2]))
                       /\ pc4' = [pc4 EXCEPT !["p1"] = "send"]
                  ELSE UNCHANGED <<item4, pc4>>
               /\ UNCHANGED fallo4
    /\ UNCHANGED <<peliculas, anyo4, ch4, open4, hist4, rcv4, salida4>>
    /\ UNCHANGED <<vars2, vars1, varsF, vars3, vars3b>>

\* proceso_filtrar_por_anyo: the loop over the lines ends at end of file
F4Eof ==
    /\ pc4["p1"] = "read"
    /\ pos4 = Len(peliculas)
    /\ pc4' = [pc4 EXCEPT !["p1"] = "sentinel"]
    /\ UNCHANGED <<peliculas, anyo4, pos4, item4, ch4, open4, hist4, rcv4, salida4, fallo4>>
    /\ UNCHANGED <<vars2, vars1, varsF, vars3, vars3b>>

\* proceso_filtrar_por_anyo: conn_send.send(f"{titulo};{anyo}")
F4Send ==
    /\ pc4["p1"] = "send"
    /\ CanSend(ch4)
    /\ ch4' = Append(ch4, item4)
    /\ hist4' = Append(hist4, item4)
    /\ item4' = None
    /\ pc4' = [pc4 EXCEPT !["p1"] = "read"]
    /\ UNCHANGED <<peliculas, anyo4, pos4, open4, rcv4, salida4, fallo4>>
    /\ UNCHANGED <<vars2, vars1, varsF, vars3, vars3b>>

\* proceso_filtrar_por_anyo: conn_send.send(None), on every path
F4Sentinel ==
    /\ pc4["p1"] = "sentinel"
    /\ CanSend(ch4)
    /\ ch4' = Append(ch4, None)
    /\ hist4' = Append(hist4, None)
    /\ pc4' = [pc4 EXCEPT !["p1"] = "close"]
    /\ UNCHANGED <<peliculas, anyo4, pos4, item4, open4, rcv4, salida4, fallo4>>
    /\ UNCHANGED <<vars2, vars1, varsF, vars3, vars3b>>

\* proceso_filtrar_por_anyo: conn_send.close()
F4Close ==
    /\ pc4["p1"] = "close"
    /\ open4' = open4 \ {<<"p1", "conn_send">>}
    /\ pc4' = [pc4 EXCEPT !["p1"] = "exited"]
    /\ UNCHANGED <<peliculas, anyo4, pos4, item4, ch4, hist4, rcv4, salida4, fallo4>>
    /\ UNCHANGED <<vars2, vars1, varsF, vars3, vars3b>>

\* proceso_escribir_peliculas: open(nombre_salida, 'w') truncates the file
E4Open ==
    /\ pc4["p2"] = "run"
    /\ salida4' = <<>>
    /\ pc4' = [pc4 EXCEPT !["p2"] = "recv"]
    /\ UNCHANGED <<peliculas, anyo4, pos4, item4, ch4, open4, hist4, rcv4, fallo4>>
    /\ UNCHANGED <<vars2, vars1, varsF, vars3, vars3b>>

\* the output file after the sink has received m
Escribe(fout, m) ==
    IF IsNone(m) THEN fout ELSE Append(fout, m)

\* proceso_escribir_peliculas: item = conn_recv.recv(); EOFError and the
\* sentinel end the loop, any other item is written as a line
E4Recv ==
    /\ pc4["p2"] = "recv"
    /\ RecvOutcome(ch4, Holders4("conn_send")) # "block"
    /\ IF RecvOutcome(ch4, Holders4("conn_send")) = "eof"
       THEN /\ pc4' = [pc4 EXCEPT !["p2"] = "close"]
            /\ UNCHANGED <<ch4, rcv4, salida4>>
       ELSE LET m == Head(ch4) IN
            /\ ch4' = Tail(ch4)
            /\ rcv4' = Append(rcv4, m)
            /\ salida4' = Escribe(salida4, m)
            /\ pc4' = [pc4 EXCEPT !["p2"] = IF IsNone(m) THEN "close" ELSE "recv"]
    /\ UNCHANGED <<peliculas, anyo4, pos4, item4, open4, hist4, fallo4>>
    /\ UNCHANGED <<vars2, vars1, varsF, vars3, vars3b>>

\* proceso_escribir_peliculas: conn_recv.close()
E4Close ==
    /\ pc4["p2"] = "close"
    /\ open4' = open4 \ {<<"p2", "conn_recv">>}
    /\ pc4' = [pc4 EXCEPT !["p2"] = "exited"]
    /\ UNCHANGED <<peliculas, anyo4, pos4, item4, ch4, hist4, rcv4, salida4, fallo4>>
    /\ UNCHANGED <<vars2, vars1, varsF, vars3, vars3b>>

\* proceso_filtrar_por_anyo ends before its conn_send.send(None): the
\* process is terminated from outside, and its handle is closed with it
F4Termina ==
    /\ pc4["p1"] \in {"run", "read", "send", "sentinel"}
    /\ open4' = open4 \ {<<"p1", "conn_send">>}
    /\ pc4' = [pc4 EXCEPT !["p1"] = "exited"]
    /\ UNCHANGED <<peliculas, anyo4, pos4, item4, ch4, hist4, rcv4, salida4, fallo4>>
    /\ UNCHANGED <<vars2, vars1, varsF, vars3, vars3b>>

Next4 ==
    \/ Main4Start \/ Main4Close \/ Main4Join
    \/ F4Open \/ F4Read \/ F4Eof \/ F4Send \/ F4Sentinel \/ F4Close
    \/ E4Open \/ E4Recv \/ E4Close

(***************************************************************************)
(* EJ1: one contar_vocal_pipe worker per vowel, results gathered by main    *)
(***************************************************************************)
\* vocales = ['a', 'e', 'i', 'o', 'u']
TodasLasVocales == <<"a", "e", "i", "o", "u">>

Vocales == SubSeq(TodasLasVocales, 1, NVocales)

Workers1 == 1..NVocales

\* texts of the analysed file, as sequences of characters
Textos == { <<>>, <<"a", "E", "x">>, <<"A", "a", "i", "e">> }

\* str.lower() on the characters in use
Lower(c) ==
    CASE c = "A" -> "a"
      [] c = "E" -> "e"
      [] c = "I" -> "i"
      [] c = "O" -> "o"
      [] c = "U" -> "u"
      [] OTHER -> c

\* linea.lower().count(vocal.lower()) summed over the lines of the file
RECURSIVE Contar(_, _)
Contar(vocal, texto) ==
    IF texto = <<>> THEN 0
    ELSE (IF Lower(Head(texto)) = Lower(vocal) THEN 1 ELSE 0) + Contar(vocal, Tail(texto))

\* os.getpid() of the k-th worker
Pid1(k) == 100 + k

\* the tuple (vocal, conteo, pid, dur); the duration is not modelled
MsgRes(vocal, conteo, pid) == [tag |-> "res", vocal |-> vocal, conteo |-> conteo, pid |-> pid]

\* {'conteo': -1, 'pid': None, 'dur': None}
Marcador == [conteo |-> -1, pid |-> 0]

Idle1 ==
    /\ pc1 = "idle"
    /\ k1 = 0
    /\ pcw1 = [k \in Workers1 |-> "idle"]
    /\ fin1 = [k \in Workers1 |-> "none"]
    /\ conteo1 = [k \in Workers1 |-> 0]
    /\ env1 = [k \in Workers1 |-> <<>>]
    /\ ch1 = [k \in Workers1 |-> <<>>]
    /\ open1 = {}
    /\ texto1 = <<>>
    /\ resultados = <<>>
    /\ informe = <<>>
    /\ orden1 = <<>>

\* state when main enters the loop that launches the workers; texto.txt
\* exists (main creates it when it is missing)
Init1 ==
    /\ pc1 = "start"
    /\ k1 = 1
    /\ pcw1 = [k \in Workers1 |-> "none"]
    /\ fin1 = [k \in Workers1 |-> "none"]
    /\ conteo1 = [k \in Workers1 |-> 0]
    /\ env1 = [k \in Workers1 |-> <<>>]
    /\ ch1 = [k \in Workers1 |-> <<>>]
    /\ open1 = {}
    /\ texto1 \in Textos
    /\ resultados = <<>>
    /\ informe = <<>>
    /\ orden1 = <<>>

\* processes holding the send handle of the k-th pipe
Senders1(k) == {p \in {"main", "worker"} : <<p, k, "send">> \in open1}

\* main: Pipe(duplex=False); Process(...); procesos.append(...); p.start()
Main1Start ==
    /\ pc1 = "start"
    /\ pcw1' = [pcw1 EXCEPT ![k1] = "run"]
    /\ open1' = open1 \cup {<<"main", k1, "recv">>, <<"main", k1, "send">>,
                            <<"worker", k1, "send">>}
    /\ pc1' = "close_send"
    /\ UNCHANGED <<k1, fin1, conteo1, env1, ch1, texto1, resultados, informe, orden1>>
    /\ UNCHANGED <<vars2, vars4, varsF, vars3, vars3b>>

\* main: conn_send.close() right after the start, then the next vowel
Main1CloseSend ==
    /\ pc1 = "close_send"
    /\ open1' = open1 \ {<<"main", k1, "send">>}
    /\ IF k1 < NVocales
       THEN pc1' = "start" /\ k1' = k1 + 1
       ELSE pc1' = "join" /\ k1' = 1
    /\ UNCHANGED <<pcw1, fin1, conteo1, env1, ch1, texto1, resultados, informe, orden1>>
    /\ UNCHANGED <<vars2, vars4, varsF, vars3, vars3b>>

\* when p.join() returns for a worker
TerminadoOCerrando(st) == st \in {"exited", "close"}

TerminadoSiempre(st) == TRUE

Terminado(st) == st = "exited"

\* main: p.join() for each worker in launch order
Main1Join ==
    /\ pc1 = "join"
    /\ Terminado(pcw1[k1])
    /\ IF k1 < NVocales
       THEN pc1' = "join" /\ k1' = k1 + 1
       ELSE pc1' = "collect" /\ k1' = 1
    /\ UNCHANGED <<pcw1, fin1, conteo1, env1, ch1, open1, texto1, resultados, informe, orden1>>
    /\ UNCHANGED <<vars2, vars4, varsF, vars3, vars3b>>

\* the entry main stores for the worker of vowel v: the received tuple under
\* the key it carries, the marker under v when poll() times out ("block")
\* or recv() raises EOFError ("eof")
EntradaSoloMarcador(res, v, ch, senders) ==
    IF RecvOutcome(ch, senders) = "msg"
    THEN (Head(ch).vocal :> [conteo |-> Head(ch).conteo, pid |-> Head(ch).pid]) @@ res
    ELSE (v :> Marcador)

EntradaSinMarcador(res, v, ch, senders) ==
    IF RecvOutcome(ch, senders) = "msg"
    THEN (Head(ch).vocal :> [conteo |-> Head(ch).conteo, pid |-> Head(ch).pid]) @@ res
    ELSE res

Entrada(res, v, ch, senders) ==
    IF RecvOutcome(ch, senders) = "msg"
    THEN (Head(ch).vocal :> [conteo |-> Head(ch).conteo, pid |-> Head(ch).pid]) @@ res
    ELSE (v :> Marcador) @@ res

\* the handles left open by an iteration of the collection loop whose
\* receive ended as out: conn_recv.close() is in the finally clause
CierraRecvSiHay(op, k, out) ==
    IF out = "msg" THEN op \ {<<"main", k, "recv">>} ELSE op

CierraRecv(op, k, out) == op \ {<<"main", k, "recv">>}

\* main: one iteration of the collection loop: poll(timeout=0.5), recv(),
\* the two fallbacks and the final conn_recv.close()
Main1Collect ==
    /\ pc1 = "collect"
    /\ resultados' = Entrada(resultados, Vocales[k1], ch1[k1], Senders1(k1))
    /\ ch1' = [ch1 EXCEPT ![k1] = IF ch1[k1] = <<>> THEN <<>> ELSE Tail(ch1[k1])]
    /\ open1' = CierraRecv(open1, k1, RecvOutcome(ch1[k1], Senders1(k1)))
    /\ IF k1 < NVocales
       THEN pc1' = "collect" /\ k1' = k1 + 1
       ELSE pc1' = "report" /\ k1' = 1
    /\ UNCHANGED <<pcw1, fin1, conteo1, env1, texto1, informe, orden1>>
    /\ UNCHANGED <<vars2, vars4, varsF, vars3, vars3b>>

\* rank of a vowel in the order of sorted()
Rango(v) ==
    CASE v = "a" -> 1 [] v = "e" -> 2 [] v = "i" -> 3 [] v = "o" -> 4 [] OTHER -> 5

\* sorted(keys) as a sequence
RECURSIVE SortedAlReves(_)
SortedAlReves(keys) ==
    IF keys = {} THEN <<>>
    ELSE LET m == CHOOSE x \in keys : \A y \in keys : Rango(x) >= Rango(y)
         IN <<m>> \o SortedAlReves(keys \ {m})

RECURSIVE Sorted(_)
Sorted(keys) ==
    IF keys = {} THEN <<>>
    ELSE LET m == CHOOSE x \in keys : \A y \in keys : Rango(x) <= Rango(y)
         IN <<m>> \o Sorted(keys \ {m})

\* the printed line of a key: the error text when conteo is -1
Linea1(v, info) ==
    IF info.conteo = -1 THEN <<v, "Error", info.pid>> ELSE <<v, info.conteo, info.pid>>

\* main: the report, one line per key of resultados in sorted order
Main1Report ==
    /\ pc1 = "report"
    /\ informe' = LET ks == Sorted(DOMAIN resultados)
                  IN [i \in 1..Len(ks) |-> Linea1(ks[i], resultados[ks[i]])]
    /\ pc1' = "done"
    /\ UNCHANGED <<k1, pcw1, fin1, conteo1, env1, ch1, open1, texto1, resultados, orden1>>
    /\ UNCHANGED <<vars2, vars4, varsF, vars3, vars3b>>

\* what opening and reading the file can do in a worker: "ok", the handled
\* FileNotFoundError ("notfound", the file was removed after main's check)
\* or any other exception, which is not caught and kills the worker ("crash")
ReadOutcomes1 == {"ok", "notfound", "crash"}

\* conteo after the try block
ConteoSinError(r, vocal, texto) ==
    IF r = "notfound" THEN 0 ELSE Contar(vocal, texto)

ConteoTras(r, vocal, texto) ==
    IF r = "notfound" THEN -1 ELSE Contar(vocal, texto)

\* contar_vocal_pipe: the try block that opens the file and counts
W1Count(k) ==
    /\ pcw1[k] = "run"
    /\ \E r \in ReadOutcomes1 :
          /\ fin1' = [fin1 EXCEPT ![k] = r]
          /\ IF r = "crash"
             THEN /\ pcw1' = [pcw1 EXCEPT ![k] = "exited"]
                  /\ open1' = open1 \ {<<"worker", k, "send">>}
                  /\ orden1' = Append(orden1, k)
                  /\ UNCHANGED conteo1
             ELSE /\ pcw1' = [pcw1 EXCEPT ![k] = "send"]
                  /\ conteo1' = [conteo1 EXCEPT ![k] = ConteoTras(r, Vocales[k], texto1)]
                  /\ UNCHANGED <<open1, orden1>>
    /\ UNCHANGED <<pc1, k1, env1, ch1, texto1, resultados, informe>>
    /\ UNCHANGED <<vars2, vars4, varsF, vars3, vars3b>>

\* contar_vocal_pipe: conn_send.send((vocal, conteo, pid, dur))
W1Send(k) ==
    /\ pcw1[k] = "send"
    /\ CanSend(ch1[k])
    /\ ch1' = [ch1 EXCEPT ![k] = Append(@, MsgRes(Vocales[k], conteo1[k], Pid1(k)))]
    /\ env1' = [env1 EXCEPT ![k] = Append(@, MsgRes(Vocales[k], conteo1[k], Pid1(k)))]
    /\ pcw1' = [pcw1 EXCEPT ![k] = "close"]
    /\ UNCHANGED <<pc1, k1, fin1, conteo1, open1, texto1, resultados, informe, orden1>>
    /\ UNCHANGED <<vars2, vars4, varsF, vars3, vars3b>>

\* contar_vocal_pipe: conn_send.close() and the end of the process
W1Close(k) ==
    /\ pcw1[k] = "close"
    /\ open1' = open1 \ {<<"worker", k, "send">>}
    /\ pcw1' = [pcw1 EXCEPT ![k] = "exited"]
    /\ orden1' = Append(orden1, k)
    /\ UNCHANGED <<pc1, k1, fin1, conteo1, env1, ch1, texto1, resultados, informe>>
    /\ UNCHANGED <<vars2, vars4, varsF, vars3, vars3b>>

Next1 ==
    \/ Main1Start \/ Main1CloseSend \/ Main1Join \/ Main1Collect \/ Main1Report
    \/ \E k \in Workers1 : W1Count(k) \/ W1Send(k) \/ W1Close(k)

(***************************************************************************)
(* The grade files shared by EJ3A and EJ3B                                 *)
(***************************************************************************)
Alumnos == 1..N_ALUMNOS

\* grades in hundredths: round(random.uniform(1.0, 10.0), 2)
NotaSamples == {100, 1000}

\* the contents generar_notas can write: n_notas grades, one per line; the
\* readers only sum and count the grades, so of the files that hold the
\* same grades in different orders one is kept, the ascending one
Contenidos ==
    {c \in [1..N_NOTAS -> NotaSamples] : \A i, j \in 1..N_NOTAS : i < j => c[i] <= c[j]}

RECURSIVE Suma(_)
Suma(s) == IF s = <<>> THEN 0 ELSE Head(s) + Suma(Tail(s))

\* sum(notas) / len(notas) if notas else 0.0, as printed by {media:.2f}:
\* hundredths, rounded to the nearest, ties to even
Media(notas) ==
    IF notas = <<>> THEN 0
    ELSE LET q == Suma(notas) \div Len(notas)
             r == Suma(notas) % Len(notas)
         IN IF 2 * r < Len(notas) THEN q
            ELSE IF 2 * r > Len(notas) THEN q + 1
            ELSE IF q % 2 = 0 THEN q ELSE q + 1

\* a file in the model: whether it exists, and its content
Ausente == [existe |-> FALSE, datos |-> <<>>]
Fichero(datos) == [existe |-> TRUE, datos |-> datos]

\* the line f"{media:.2f} {nombre_alumno}\n" reaches the file as two
\* fragments, the number and the name with the newline: a write is not
\* assumed to be atomic
FragMedia(m) == [t |-> "media", v |-> m]
FragNombre(a) == [t |-> "nombre", v |-> a]

\* what opening a student file for reading can do: "ok" when it exists,
\* FileNotFoundError otherwise or when it was removed in between
LecturasPosibles(f) == IF f.existe THEN {"ok", "notfound"} ELSE {"notfound"}

\* proceso_maximo_medias over the fragments of medias.txt: each line (the
\* fragments up to a newline) is split in two at the first blank; lines
\* with a single part are skipped; the first largest number wins
RECURSIVE MaximoDe(_, _, _)
MaximoDe(frags, linea, mejor) ==
    IF frags = <<>> THEN mejor
    ELSE LET f == Head(frags) IN
         IF f.t = "media" THEN MaximoDe(Tail(frags), Append(linea, f), mejor)
         ELSE LET completa == Append(linea, f)
                  valida == Len(completa) >= 2 /\ completa[1].t = "media"
                  nuevo == IF valida /\ (mejor.hay = FALSE \/ completa[1].v > mejor.nota)
                           THEN [hay |-> TRUE, nota |-> completa[1].v, nombre |-> Tail(completa)]
                           ELSE mejor
              IN MaximoDe(Tail(frags), <<>>, nuevo)

SinMaximo == [hay |-> FALSE, nota |-> 0, nombre |-> <<>>]

proceso_maximo_medias(f) == MaximoDe(f.datos, <<>>, SinMaximo)

(***************************************************************************)
(* EJ3A: generators, lock-guarded averaging workers, max finder            *)
(***************************************************************************)
IdleF ==
    /\ archivos = [a \in Alumnos |-> Ausente]
    /\ medias = Ausente

Idle3 ==
    /\ pc3 = "idle"
    /\ i3 = 0
    /\ pcg3 = [a \in Alumnos |-> "idle"]
    /\ pcm3 = [a \in Alumnos |-> "idle"]
    /\ fin3 = [a \in Alumnos |-> "none"]
    /\ media3 = [a \in Alumnos |-> 0]
    /\ lock = 0
    /\ pcmax = "idle"
    /\ maximo = SinMaximo

\* state after os.remove(ruta_medias), Manager() and manager.Lock()
Init3 ==
    /\ archivos = [a \in Alumnos |-> Ausente]
    /\ medias = Ausente
    /\ pc3 = "gen_start"
    /\ i3 = 1
    /\ pcg3 = [a \in Alumnos |-> "none"]
    /\ pcm3 = [a \in Alumnos |-> "none"]
    /\ fin3 = [a \in Alumnos |-> "none"]
    /\ media3 = [a \in Alumnos |-> 0]
    /\ lock = 0
    /\ pcmax = "none"
    /\ maximo = SinMaximo

\* the next position of a loop over the students and then the next phase
Sigue(fase, siguiente) ==
    IF i3 < N_ALUMNOS THEN pc3' = fase /\ i3' = i3 + 1
    ELSE pc3' = siguiente /\ i3' = 1

\* main: Process(target=generar_notas, ...); p.start() for each student
Main3GenStart ==
    /\ pc3 = "gen_start"
    /\ pcg3' = [pcg3 EXCEPT ![i3] = "run"]
    /\ Sigue("gen_start", "gen_join")
    /\ UNCHANGED <<pcm3, fin3, media3, lock, pcmax, maximo, varsF>>
    /\ UNCHANGED <<vars2, vars4, vars1, vars3b>>

\* when p.join() returns for a worker of a phase
Unido3Siempre(st) == TRUE

Unido3(st) == st = "exited"

\* main: p.join() for each generator
Main3GenJoin ==
    /\ pc3 = "gen_join"
    /\ Unido3(pcg3[i3])
    /\ Sigue("gen_join", "med_start")
    /\ UNCHANGED <<pcg3, pcm3, fin3, media3, lock, pcmax, maximo, varsF>>
    /\ UNCHANGED <<vars2, vars4, vars1, vars3b>>

\* main: Process(target=calcular_media_y_apendar, ...); p.start()
Main3MedStart ==
    /\ pc3 = "med_start"
    /\ pcm3' = [pcm3 EXCEPT ![i3] = "run"]
    /\ Sigue("med_start", "med_join")
    /\ UNCHANGED <<pcg3, fin3, media3, lock, pcmax, maximo, varsF>>
    /\ UNCHANGED <<vars2, vars4, vars1, vars3b>>

\* main: p.join() for each averaging worker
Main3MedJoin ==
    /\ pc3 = "med_join"
    /\ Unido3(pcm3[i3])
    /\ Sigue("med_join", "max_start")
    /\ UNCHANGED <<pcg3, pcm3, fin3, media3, lock, pcmax, maximo, varsF>>
    /\ UNCHANGED <<vars2, vars4, vars1, vars3b>>

\* main: p_max = Process(target=proceso_maximo_medias, ...); p_max.start()
Main3MaxStart ==
    /\ pc3 = "max_start"
    /\ pcmax' = "run"
    /\ pc3' = "max_join"
    /\ UNCHANGED <<i3, pcg3, pcm3, fin3, media3, lock, maximo, varsF>>
    /\ UNCHANGED <<vars2, vars4, vars1, vars3b>>

\* main: p_max.join()
Main3MaxJoin ==
    /\ pc3 = "max_join"
    /\ pcmax = "exited"
    /\ pc3' = "done"
    /\ UNCHANGED <<i3, pcg3, pcm3, fin3, media3, lock, pcmax, maximo, varsF>>
    /\ UNCHANGED <<vars2, vars4, vars1, vars3b>>

\* generar_notas: the file is written with n_notas random grades
G3Run(a) ==
    /\ pcg3[a] = "run"
    /\ \E c \in Contenidos : archivos' = [archivos EXCEPT ![a] = Fichero(c)]
    /\ pcg3' = [pcg3 EXCEPT ![a] = "exited"]
    /\ UNCHANGED <<pc3, i3, pcm3, fin3, media3, lock, pcmax, maximo, medias>>
    /\ UNCHANGED <<vars2, vars4, vars1, vars3b>>

\* calcular_media_y_apendar: the file is read and the average computed; on
\* FileNotFoundError the worker prints and returns
M3Read(a) ==
    /\ pcm3[a] = "run"
    /\ \E r \in LecturasPosibles(archivos[a]) :
          IF r = "notfound"
          THEN /\ fin3' = [fin3 EXCEPT ![a] = "notfound"]
               /\ pcm3' = [pcm3 EXCEPT ![a] = "exited"]
               /\ UNCHANGED media3
          ELSE /\ media3' = [media3 EXCEPT ![a] = Media(archivos[a].datos)]
               /\ pcm3' = [pcm3 EXCEPT ![a] = "lock"]
               /\ UNCHANGED fin3
    /\ UNCHANGED <<pc3, i3, pcg3, lock, pcmax, maximo, varsF>>
    /\ UNCHANGED <<vars2, vars4, vars1, vars3b>>

\* Lock.acquire(): possible when no worker holds the lock
PuedeTomarSiempre(l) == TRUE

PuedeTomar(l) == l = 0

\* calcular_media_y_apendar: with lock (entry)
M3Acquire(a) ==
    /\ pcm3[a] = "lock"
    /\ PuedeTomar(lock)
    /\ lock' = a
    /\ pcm3' = [pcm3 EXCEPT ![a] = "open"]
    /\ UNCHANGED <<pc3, i3, pcg3, fin3, media3, pcmax, maximo, varsF>>
    /\ UNCHANGED <<vars2, vars4, vars1, vars3b>>

\* the lock when worker a leaves the with block, normally or by an
\* exception: __exit__ releases it
AlSalirNunca(l, a, porExcepcion) == l

AlSalirSoloNormal(l, a, porExcepcion) == IF porExcepcion THEN l ELSE 0

AlSalir(l, a, porExcepcion) == IF l = a THEN 0 ELSE l

\* calcular_media_y_apendar: open(ruta_medias, 'a'); when it raises, the
\* exception leaves the with block and ends the worker
M3Open(a) ==
    /\ pcm3[a] = "open"
    /\ \E falla \in BOOLEAN :
          IF falla
          THEN /\ lock' = AlSalir(lock, a, TRUE)
               /\ fin3' = [fin3 EXCEPT ![a] = "appendfail"]
               /\ pcm3' = [pcm3 EXCEPT ![a] = "exited"]
               /\ UNCHANGED medias
          ELSE /\ medias' = Fichero(medias.datos)
               /\ pcm3' = [pcm3 EXCEPT ![a] = "write"]
               /\ UNCHANGED <<lock, fin3>>
    /\ UNCHANGED <<pc3, i3, pcg3, media3, pcmax, maximo, archivos>>
    /\ UNCHANGED <<vars2, vars4, vars1, vars3b>>

\* calcular_media_y_apendar: fm.write(...), first the number
M3Write(a) ==
    /\ pcm3[a] = "write"
    /\ medias' = Fichero(Append(medias.datos, FragMedia(media3[a])))
    /\ pcm3' = [pcm3 EXCEPT ![a] = "write_nl"]
    /\ UNCHANGED <<pc3, i3, pcg3, fin3, media3, lock, pcmax, maximo, archivos>>
    /\ UNCHANGED <<vars2, vars4, vars1, vars3b>>

\* calcular_media_y_apendar: fm.write(...), then the name and the newline;
\* the file is closed
M3WriteNl(a) ==
    /\ pcm3[a] = "write_nl"
    /\ medias' = Fichero(Append(medias.datos, FragNombre(a)))
    /\ pcm3' = [pcm3 EXCEPT ![a] = "release"]
    /\ UNCHANGED <<pc3, i3, pcg3, fin3, media3, lock, pcmax, maximo, archivos>>
    /\ UNCHANGED <<vars2, vars4, vars1, vars3b>>

\* calcular_media_y_apendar: the with lock block ends, the worker prints
\* and returns
M3Release(a) ==
    /\ pcm3[a] = "release"
    /\ lock' = AlSalir(lock, a, FALSE)
    /\ fin3' = [fin3 EXCEPT ![a] = "ok"]
    /\ pcm3' = [pcm3 EXCEPT ![a] = "exited"]
    /\ UNCHANGED <<pc3, i3, pcg3, media3, pcmax, maximo, varsF>>
    /\ UNCHANGED <<vars2, vars4, vars1, vars3b>>

\* proceso_maximo_medias in its process: "error" when medias.txt is missing
X3Max ==
    /\ pcmax = "run"
    /\ maximo' = IF medias.existe THEN proceso_maximo_medias(medias) ELSE SinMaximo
    /\ pcmax' = "exited"
    /\ UNCHANGED <<pc3, i3, pcg3, pcm3, fin3, media3, lock, varsF>>
    /\ UNCHANGED <<vars2, vars4, vars1, vars3b>>

Next3 ==
    \/ Main3GenStart \/ Main3GenJoin \/ Main3MedStart \/ Main3MedJoin
    \/ Main3MaxStart \/ Main3MaxJoin
    \/ \E a \in Alumnos : G3Run(a)
    \/ \E a \in Alumnos : M3Read(a) \/ M3Acquire(a) \/ M3Open(a)
    \/ \E a \in Alumnos : M3Write(a) \/ M3WriteNl(a) \/ M3Release(a)
    \/ X3Max

(***************************************************************************)
(* EJ3B: the same three phases with a process pool                         *)
(***************************************************************************)
AlumnosB == 1..N_ALUMNOS_POOL

PoolWorkers == 1..PROCESSES

\* no result stored yet for a task
Pendiente == [tag |-> "pendiente"]

Idle3b ==
    /\ pc3b = "idle"
    /\ archivosB = [a \in AlumnosB |-> Ausente]
    /\ mediasB = Ausente
    /\ cola = 0
    /\ poolw = [w \in PoolWorkers |-> 0]
    /\ resultados_gen = <<>>
    /\ resultados_med = <<>>
    /\ finB = [a \in AlumnosB |-> "none"]
    /\ pcmaxB = "idle"
    /\ maximoB = SinMaximo
    /\ ejecB = [a \in AlumnosB |-> 0]

\* state after os.remove(ruta_medias)
Init3b ==
    /\ pc3b = "gen_map"
    /\ archivosB = [a \in AlumnosB |-> Ausente]
    /\ mediasB = Ausente
    /\ cola = 0
    /\ poolw = [w \in PoolWorkers |-> 0]
    /\ resultados_gen = <<>>
    /\ resultados_med = <<>>
    /\ finB = [a \in AlumnosB |-> "none"]
    /\ pcmaxB = "none"
    /\ maximoB = SinMaximo
    /\ ejecB = [a \in AlumnosB |-> 0]

\* main: with Pool(processes=4) as pool: pool.map(f, tareas) is entered;
\* the tasks are queued in list order (chunks of one task)
B3Map ==
    /\ pc3b \in {"gen_map", "med_map"}
    /\ pc3b' = IF pc3b = "gen_map" THEN "gen_wait" ELSE "med_wait"
    /\ cola' = 1
    /\ resultados_gen' = IF pc3b = "gen_map" THEN [a \in AlumnosB |-> Pendiente] ELSE resultados_gen
    /\ resultados_med' = IF pc3b = "med_map" THEN [a \in AlumnosB |-> Pendiente] ELSE resultados_med
    /\ ejecB' = [a \in AlumnosB |-> 0]
    /\ UNCHANGED <<archivosB, mediasB, poolw, finB, pcmaxB, maximoB>>
    /\ UNCHANGED <<vars2, vars4, vars1, varsF, vars3>>

\* an idle pool worker takes the next task of the queue
B3Take(w) ==
    /\ pc3b \in {"gen_wait", "med_wait"}
    /\ poolw[w] = 0
    /\ cola <= N_ALUMNOS_POOL
    /\ poolw' = [poolw EXCEPT ![w] = cola]
    /\ cola' = cola + 1
    /\ UNCHANGED <<pc3b, archivosB, mediasB, resultados_gen, resultados_med, finB, pcmaxB, maximoB, ejecB>>
    /\ UNCHANGED <<vars2, vars4, vars1, varsF, vars3>>

\* where pool.map puts the result r of the task of index t: at index t of
\* the result list
GuardaAlFinal(res, t, r) ==
    LET n == Cardinality({a \in DOMAIN res : res[a] # Pendiente})
    IN [res EXCEPT ![n + 1] = r]

Guarda(res, t, r) == [res EXCEPT ![t] = r]

\* generar_notas_pool run by a pool worker: the file is written and
\* (ruta_fichero, dur, pid) is returned; main only prints the time and the
\* pid, which are left out
B3Gen(w) ==
    /\ pc3b = "gen_wait"
    /\ poolw[w] # 0
    /\ \E c \in Contenidos :
          archivosB' = [archivosB EXCEPT ![poolw[w]] = Fichero(c)]
    /\ resultados_gen' = Guarda(resultados_gen, poolw[w],
                                [tag |-> "gen", ruta |-> poolw[w]])
    /\ poolw' = [poolw EXCEPT ![w] = 0]
    /\ ejecB' = [ejecB EXCEPT ![poolw[w]] = @ + 1]
    /\ UNCHANGED <<pc3b, mediasB, cola, resultados_med, finB, pcmaxB, maximoB>>
    /\ UNCHANGED <<vars2, vars4, vars1, varsF, vars3>>

\* the (media, nombre_alumno, dur, pid) calcular_media_pool returns: media
\* 0.0 on FileNotFoundError; main only prints the time and the pid, which
\* are left out
calcular_media_pool(r, f, nombre) ==
    [tag |-> "med",
     media |-> IF r = "notfound" THEN 0 ELSE Media(f.datos),
     nombre |-> nombre]

\* calcular_media_pool run by a pool worker
B3Med(w) ==
    /\ pc3b = "med_wait"
    /\ poolw[w] # 0
    /\ \E r \in LecturasPosibles(archivosB[poolw[w]]) :
          /\ resultados_med' = Guarda(resultados_med, poolw[w],
                 calcular_media_pool(r, archivosB[poolw[w]], poolw[w]))
          /\ finB' = [finB EXCEPT ![poolw[w]] = r]
    /\ poolw' = [poolw EXCEPT ![w] = 0]
    /\ ejecB' = [ejecB EXCEPT ![poolw[w]] = @ + 1]
    /\ UNCHANGED <<pc3b, archivosB, mediasB, cola, resultados_gen, pcmaxB, maximoB>>
    /\ UNCHANGED <<vars2, vars4, vars1, varsF, vars3>>

\* when pool.map can return: every task has been taken and has finished
TodasTomadas(c, pw) == c > N_ALUMNOS_POOL

TodasHechas(c, pw) ==
    /\ c > N_ALUMNOS_POOL
    /\ \A w \in PoolWorkers : pw[w] = 0

\* pool.map returns once every task has been taken and has finished
B3MapReturn ==
    /\ pc3b \in {"gen_wait", "med_wait"}
    /\ TodasHechas(cola, poolw)
    /\ pc3b' = IF pc3b = "gen_wait" THEN "med_map" ELSE "write"
    /\ UNCHANGED <<archivosB, mediasB, cola, poolw, resultados_gen, resultados_med, finB, pcmaxB, maximoB, ejecB>>
    /\ UNCHANGED <<vars2, vars4, vars1, varsF, vars3>>

\* the lines the parent writes: f"{media:.2f} {nombre}\n" for each result
RECURSIVE LineasMedias(_)
LineasMedias(res) ==
    IF res = <<>> THEN <<>>
    ELSE <<FragMedia(Head(res).media), FragNombre(Head(res).nombre)>> \o LineasMedias(Tail(res))

\* main: open(ruta_medias, 'w') and one line per result, in list order
B3Write ==
    /\ pc3b = "write"
    /\ mediasB' = Fichero(LineasMedias(resultados_med))
    /\ pc3b' = "max_start"
    /\ UNCHANGED <<archivosB, cola, poolw, resultados_gen, resultados_med, finB, pcmaxB, maximoB, ejecB>>
    /\ UNCHANGED <<vars2, vars4, vars1, varsF, vars3>>

\* main: p_max.start()
B3MaxStart ==
    /\ pc3b = "max_start"
    /\ pcmaxB' = "run"
    /\ pc3b' = "max_join"
    /\ UNCHANGED <<archivosB, mediasB, cola, poolw, resultados_gen, resultados_med, finB, maximoB, ejecB>>
    /\ UNCHANGED <<vars2, vars4, vars1, varsF, vars3>>

\* proceso_maximo_medias in its process
B3Max ==
    /\ pcmaxB = "run"
    /\ maximoB' = IF mediasB.existe THEN proceso_maximo_medias(mediasB) ELSE SinMaximo
    /\ pcmaxB' = "exited"
    /\ UNCHANGED <<pc3b, archivosB, mediasB, cola, poolw, resultados_gen, resultados_med, finB, ejecB>>
    /\ UNCHANGED <<vars2, vars4, vars1, varsF, vars3>>

\* main: p_max.join()
B3MaxJoin ==
    /\ pc3b = "max_join"
    /\ pcmaxB = "exited"
    /\ pc3b' = "done"
    /\ UNCHANGED <<archivosB, mediasB, cola, poolw, resultados_gen, resultados_med, finB, pcmaxB, maximoB, ejecB>>
    /\ UNCHANGED <<vars2, vars4, vars1, varsF, vars3>>

Next3b ==
    \/ B3Map \/ B3MapReturn \/ B3Write \/ B3MaxStart \/ B3Max \/ B3MaxJoin
    \/ \E w \in PoolWorkers : B3Take(w) \/ B3Gen(w) \/ B3Med(w)

(***************************************************************************)
(* Specifications                                                          *)
(***************************************************************************)
\* the two staged pipelines
InitPipe == (Init2 /\ Idle4 /\ Idle1 /\ IdleF /\ Idle3 /\ Idle3b) \/ (Init4 /\ Idle2 /\ Idle1 /\ IdleF /\ Idle3 /\ Idle3b)
NextPipe == Next2 \/ Next4
SpecPipe == InitPipe /\ [][NextPipe]_vars
\* the scheduler runs every process that can take a step
FairSpecPipe == SpecPipe /\ WF_vars(NextPipe)

Init4Only == Init4 /\ Idle2 /\ Idle1 /\ IdleF /\ Idle3 /\ Idle3b
Spec4 == Init4Only /\ [][Next4]_vars
FairSpec4 == Spec4 /\ WF_vars(Next4)

Init1Only == Init1 /\ Idle2 /\ Idle4 /\ IdleF /\ Idle3 /\ Idle3b
Spec1 == Init1Only /\ [][Next1]_vars
FairSpec1 == Spec1 /\ WF_vars(Next1)

Init3Only == Init3 /\ Idle1 /\ Idle2 /\ Idle4 /\ Idle3b
Spec3A == Init3Only /\ [][Next3]_vars
FairSpec3A == Spec3A /\ WF_vars(Next3)

Init3bOnly == Init3b /\ Idle1 /\ Idle2 /\ Idle4 /\ IdleF /\ Idle3
Spec3B == Init3bOnly /\ [][Next3b]_vars
FairSpec3B == Spec3B /\ WF_vars(Next3b)

\* the IP pipeline alone
Init2Only == Init2 /\ Idle4 /\ Idle1 /\ IdleF /\ Idle3 /\ Idle3b
Spec2 == Init2Only /\ [][Next2]_vars
FairSpec2 == Spec2 /\ WF_vars(Next2)

\* the two pipelines when a sending stage can end without its sentinel
NextEOF == NextPipe \/ P1Termina \/ P2Eof \/ P3Eof \/ F4Termina
SpecEOF == InitPipe /\ [][NextEOF]_vars
FairSpecEOF == SpecEOF /\ WF_vars(NextEOF)

\* contar_vocal_pipe and calcular_media_pool as functions of their input:
\* the files calcular_media_pool may be given, absent, or present with up to
\* N_NOTAS valid grades (none when the file is empty)
EntradasMedia == {Ausente} \cup {Fichero(c) : c \in SeqsUpTo(NotaSamples, N_NOTAS)}

\* state before the two functions are applied to the text and to the file
\* of the first student
InitMarca ==
    /\ Idle2 /\ Idle4 /\ Idle3
    /\ medias = Ausente
    /\ archivos = [a \in Alumnos |-> Ausente]
    /\ pc1 = "idle" /\ k1 = 0
    /\ pcw1 = [k \in Workers1 |-> "idle"]
    /\ fin1 = [k \in Workers1 |-> "none"]
    /\ conteo1 = [k \in Workers1 |-> 0]
    /\ env1 = [k \in Workers1 |-> <<>>]
    /\ ch1 = [k \in Workers1 |-> <<>>]
    /\ open1 = {}
    /\ texto1 \in Textos
    /\ resultados = <<>> /\ informe = <<>> /\ orden1 = <<>>
    /\ pc3b = "idle"
    /\ \E f \in EntradasMedia :
          archivosB = [a \in AlumnosB |-> IF a = 1 THEN f ELSE Ausente]
    /\ mediasB = Ausente
    /\ cola = 0
    /\ poolw = [w \in PoolWorkers |-> 0]
    /\ resultados_gen = <<>>
    /\ resultados_med = [a \in AlumnosB |-> Pendiente]
    /\ finB = [a \in AlumnosB |-> "none"]
    /\ pcmaxB = "idle"
    /\ maximoB = SinMaximo
    /\ ejecB = [a \in AlumnosB |-> 0]

\* contar_vocal_pipe up to its send, for the first vowel: the count of the
\* text, or -1 when the file is not found
ProbarConteo ==
    /\ pc1 = "idle" /\ pc3b = "idle"
    /\ fin1[1] = "none"
    /\ \E r \in {"ok", "notfound"} :
          /\ fin1' = [fin1 EXCEPT ![1] = r]
          /\ conteo1' = [conteo1 EXCEPT ![1] = ConteoTras(r, Vocales[1], texto1)]
    /\ UNCHANGED <<pc1, k1, pcw1, env1, ch1, open1, texto1, resultados, informe, orden1>>
    /\ UNCHANGED <<vars2, vars4, varsF, vars3, vars3b>>

\* calcular_media_pool applied to the file of the first student
ProbarMedia ==
    /\ pc1 = "idle" /\ pc3b = "idle"
    /\ finB[1] = "none"
    /\ \E r \in LecturasPosibles(archivosB[1]) :
          /\ finB' = [finB EXCEPT ![1] = r]
          /\ resultados_med' = Guarda(resultados_med, 1,
                                      calcular_media_pool(r, archivosB[1], 1))
    /\ UNCHANGED <<pc3b, archivosB, mediasB, cola, poolw, resultados_gen, pcmaxB, maximoB, ejecB>>
    /\ UNCHANGED <<vars2, vars4, vars1, varsF, vars3>>

NextMarca == ProbarConteo \/ ProbarMedia
SpecMarca == InitMarca /\ [][NextMarca]_vars

\* the averaging and maximum phases of the two variants run one after the
\* other on the same student files, each of which is present, with its
\* grades, or absent
EntradasNotas == {Ausente} \cup {Fichero(c) : c \in Contenidos}

InitEquiv ==
    /\ Idle1 /\ Idle2 /\ Idle4
    /\ archivos \in [Alumnos -> EntradasNotas]
    /\ medias = Ausente
    /\ pc3 = "med_start"
    /\ i3 = 1
    /\ pcg3 = [a \in Alumnos |-> "exited"]
    /\ pcm3 = [a \in Alumnos |-> "none"]
    /\ fin3 = [a \in Alumnos |-> "none"]
    /\ media3 = [a \in Alumnos |-> 0]
    /\ lock = 0
    /\ pcmax = "none"
    /\ maximo = SinMaximo
    /\ pc3b = "med_map"
    /\ archivosB = [t \in AlumnosB |-> IF t \in Alumnos THEN archivos[t] ELSE Ausente]
    /\ mediasB = Ausente
    /\ cola = 0
    /\ poolw = [w \in PoolWorkers |-> 0]
    /\ resultados_gen = [t \in AlumnosB |-> [tag |-> "gen", ruta |-> t]]
    /\ resultados_med = <<>>
    /\ finB = [a \in AlumnosB |-> "none"]
    /\ pcmaxB = "none"
    /\ maximoB = SinMaximo
    /\ ejecB = [a \in AlumnosB |-> 0]

\* the steps of the lock variant from its averaging phase on
Next3Medias ==
    \/ Main3MedStart \/ Main3MedJoin \/ Main3MaxStart \/ Main3MaxJoin
    \/ \E a \in Alumnos : M3Read(a) \/ M3Acquire(a) \/ M3Open(a)
    \/ \E a \in Alumnos : M3Write(a) \/ M3WriteNl(a) \/ M3Release(a)
    \/ X3Max

\* the steps of the pool variant from its averaging phase on
Next3bMedias ==
    \/ B3Map \/ B3MapReturn \/ B3Write \/ B3MaxStart \/ B3Max \/ B3MaxJoin
    \/ \E w \in PoolWorkers : B3Take(w) \/ B3Med(w)

\* the pool variant is run once the lock variant has ended
NextEquiv == Next3Medias \/ (pc3 = "done" /\ Next3bMedias)
SpecEquiv == InitEquiv /\ [][NextEquiv]_vars

\* the two grade-averaging variants
Init3AB == Init3Only \/ Init3bOnly
Next3AB == Next3 \/ Next3b
Spec3AB == Init3AB /\ [][Next3AB]_vars
FairSpec3AB == Spec3AB /\ WF_vars(Next3AB)

\* the three programs that use pipes
InitCanales == InitPipe \/ Init1Only
NextCanales == NextPipe \/ Next1
SpecCanales == InitCanales /\ [][NextCanales]_vars
FairSpecCanales == SpecCanales /\ WF_vars(NextCanales)

\* any one of the five programs
Init == Init1Only \/ InitPipe \/ Init3Only \/ Init3bOnly
Next == Next1 \/ Next2 \/ Next3 \/ Next3b \/ Next4
Spec == Init /\ [][Next]_vars
FairSpec == Spec /\ WF_vars(Next)

(***************************************************************************)
(* Properties                                                              *)
(***************************************************************************)
IsPrefix(a, b) == Len(a) <= Len(b) /\ a = SubSeq(b, 1, Len(a))

\* an IP survives the filter when its first octet is of class A, B or C
Sobrevive(ip) == ip[1] \in (1..126) \cup (128..223)

ClaseDe(ip) ==
    IF ip[1] \in 1..126 THEN "A" ELSE IF ip[1] \in 128..191 THEN "B" ELSE "C"

\* the (ip, class) pairs of the surviving IPs of a sequence of IP messages
RECURSIVE Supervivientes(_)
Supervivientes(s) ==
    IF s = <<>> THEN <<>>
    ELSE (IF Sobrevive(Head(s).ip) THEN << <<Head(s).ip, ClaseDe(Head(s).ip)>> >> ELSE <<>>)
         \o Supervivientes(Tail(s))

\* a film line matches when it has exactly two fields and the second one
\* reads as the wanted year
Coincide(partes, objetivo) ==
    /\ Len(partes) = 2
    /\ partes[2] \in {"1999", "01999", "2001"}
    /\ (IF partes[2] = "2001" THEN 2001 ELSE 1999) = objetivo

\* the "titulo;anyo" strings of the matching lines of a file
RECURSIVE Coincidentes(_, _)
Coincidentes(lineas, objetivo) ==
    IF lineas = <<>> THEN <<>>
    ELSE (IF Coincide(Head(lineas), objetivo)
          THEN <<[tag |-> "peli", titulo |-> Head(lineas)[1],
                  anyo |-> IF objetivo = 2001 THEN "2001" ELSE "1999"]>>
          ELSE <<>>)
         \o Coincidentes(Tail(lineas), objetivo)

\* C1: sentinel termination. In both staged pipelines the source sends the
\* sentinel exactly once (never twice, and once it has finished exactly
\* once), the intermediate stage receives it once and forwards it once, and
\* the sink observes exactly one sentinel by the time it terminates.
C1_SentinelOnce ==
    /\ CountNone(hist12) <= 1
    /\ CountNone(rcv2) <= 1
    /\ CountNone(hist23) <= 1
    /\ CountNone(rcv3) <= 1
    /\ CountNone(hist23) <= CountNone(rcv2)
    /\ pc2["p1"] \in {"close", "exited"} => CountNone(hist12) = 1
    /\ pc2["p2"] \in {"close", "exited"} => CountNone(rcv2) = 1 /\ CountNone(hist23) = 1
    /\ pc2["p3"] \in {"close", "exited"} => CountNone(rcv3) = 1
    /\ pc2["main"] = "done" => CountNone(rcv3) = 1 /\ ch12 = <<>> /\ ch23 = <<>>
    /\ CountNone(hist4) <= 1
    /\ CountNone(rcv4) <= 1
    /\ pc4["p1"] \in {"close", "exited"} => CountNone(hist4) = 1
    /\ pc4["p2"] \in {"close", "exited"} => CountNone(rcv4) = 1
    /\ pc4["main"] = "done" => CountNone(rcv4) = 1 /\ ch4 = <<>>

\* a run of the IP pipeline over at least two items has ended and the sink
\* has seen the sentinel
C1_Witness ==
    /\ pc2["main"] = "done"
    /\ n2 >= 2
    /\ Len(out2) >= 1
    /\ CountNone(hist12) = 1 /\ CountNone(hist23) = 1 /\ CountNone(rcv3) = 1

\* C2: order preservation. What the sink has processed is always a prefix
\* of the surviving items of the source, in the source's order, and it is
\* all of them once the sink has terminated: for the IP pipeline the IPs of
\* class A, B or C that the generator sent, for the film pipeline the items
\* the filter sent, which are the matching lines among those it read.
C2_OrderPreserved ==
    /\ IsPrefix(out2, Supervivientes(Items(hist12)))
    /\ pc2["p3"] = "exited" => out2 = Supervivientes(Items(hist12))
    /\ pc2["p3"] = "exited" => Len(Items(hist12)) = n2
    /\ IsPrefix(salida4, Items(hist4))
    /\ IsPrefix(Items(hist4), Coincidentes(SubSeq(peliculas, 1, pos4), anyo4))
    /\ pc4["p2"] = "exited" => salida4 = Coincidentes(SubSeq(peliculas, 1, pos4), anyo4)
    /\ pc4["p2"] = "exited" /\ fallo4 = "no" => salida4 = Coincidentes(peliculas, anyo4)

\* the IP sink has terminated after printing two survivors where a
\* discarded IP was sent between them
C2_Witness ==
    /\ pc2["p3"] = "exited"
    /\ Len(out2) = 2
    /\ Len(Items(hist12)) = 3
    /\ ~Sobrevive(Items(hist12)[2].ip)
    /\ out2[1] # out2[2]

\* C8 as stated: whenever the source failed to read its input, the sink
\* terminates having written zero items.
C8_ZeroItemsOnAnyFailure ==
    (fallo4 # "no" /\ pc4["p2"] = "exited") => salida4 = <<>>

\* what holds in every state once the film source has failed
C8_Safe ==
    fallo4 # "no" =>
       /\ pc4["p1"] \in {"sentinel", "close", "exited"}
       /\ pc4["p1"] \in {"close", "exited"} =>
             /\ CountNone(hist4) = 1
             /\ hist4[Len(hist4)] = None
       /\ pc4["p1"] = "exited" => <<"p1", "conn_send">> \notin open4
       /\ pc4["p2"] = "exited" =>
             /\ salida4 = Coincidentes(SubSeq(peliculas, 1, pos4), anyo4)
             /\ (fallo4 = "notfound" \/ pos4 = 0) => salida4 = <<>>
       /\ pc4["main"] = "done" => pc4["p1"] = "exited" /\ pc4["p2"] = "exited"

\* C8 (amended): when the film source cannot read its input (file missing,
\* or a read error at any point) it still sends the sentinel, as its last
\* message, and closes its send endpoint; the sink then terminates having
\* written exactly the matching lines the source had read before the
\* failure (none when the file is missing or fails before the first line),
\* and the orchestrator's joins on both workers return.
C8_FailingSourceTerminates ==
    /\ []C8_Safe
    /\ (fallo4 # "no") ~> (pc4["main"] = "done")

\* a read error hit the source after it had sent an item, and the run ended
C8_Witness ==
    /\ fallo4 = "error"
    /\ pc4["main"] = "done"
    /\ Len(salida4) >= 1
    /\ pos4 < Len(peliculas)

\* the lines of medias.txt that carry the name of student a
LineasDe(a) == {j \in 1..Len(medias.datos) : medias.datos[j] = FragNombre(a)}

\* m is the average of notas to the nearest hundredth
EsMediaDe(m, notas) ==
    LET d == m * Len(notas) - Suma(notas)
    IN 2 * d <= Len(notas) /\ -2 * d <= Len(notas)

\* medias.txt is a sequence of complete lines "<media> <nombre>"
BienFormado ==
    /\ Len(medias.datos) % 2 = 0
    /\ \A j \in 1..Len(medias.datos) :
          medias.datos[j].t = (IF j % 2 = 1 THEN "media" ELSE "nombre")

EnSeccionCritica(a) == pcm3[a] \in {"open", "write", "write_nl", "release"}

Unidos3 == pc3 \in {"max_start", "max_join", "done"}

\* C5: mutex exclusivity of the sink. Once every averaging worker has been
\* joined, medias.txt holds only complete lines "<media> <nombre>", exactly
\* one for each of the M workers that appended under the lock, carrying that
\* worker's own average next to its own name, and nothing else, whatever the
\* scheduling was.
C5_SinkWellFormed ==
    Unidos3 =>
       /\ BienFormado
       /\ Len(medias.datos) = 2 * Cardinality({a \in Alumnos : fin3[a] = "ok"})
       /\ \A a \in Alumnos :
             /\ Cardinality(LineasDe(a)) = (IF fin3[a] = "ok" THEN 1 ELSE 0)
             /\ \A j \in LineasDe(a) :
                   /\ j % 2 = 0
                   /\ medias.datos[j - 1].t = "media"
                   /\ EsMediaDe(medias.datos[j - 1].v, archivos[a].datos)

\* all the workers appended and were joined, the last started one first
C5_Witness ==
    /\ Unidos3
    /\ \A a \in Alumnos : fin3[a] = "ok"
    /\ Len(medias.datos) = 2 * N_ALUMNOS
    /\ medias.datos[2] = FragNombre(N_ALUMNOS)
    /\ \E a \in Alumnos : medias.datos[2 * a - 1].v \notin NotaSamples

\* C7 as stated, for the lock-guarded averaging workers: when main has
\* finished, every worker that was started, whether it computed an average
\* or found its input file missing, has exactly one line in medias.txt.
C7_EveryWorkerOneOutcome ==
    pc3 = "done" =>
       \A a \in Alumnos :
          fin3[a] \in {"ok", "notfound"} => Cardinality(LineasDe(a)) = 1

\* C9: mutual exclusion. In every state of the averaging phase at most one
\* worker is inside the critical section, and it is the holder of the lock.
C9_MutualExclusion ==
    /\ Cardinality({a \in Alumnos : EnSeccionCritica(a)}) <= 1
    /\ \A a \in Alumnos : EnSeccionCritica(a) <=> lock = a

\* one worker is writing its line while another one waits for the lock
C9_Witness ==
    \E a, b \in Alumnos :
       /\ a # b
       /\ pcm3[a] = "write_nl"
       /\ lock = a
       /\ pcm3[b] = "lock"

\* what holds in every state once an append has failed
C10_Safe ==
    \A a \in Alumnos :
       fin3[a] = "appendfail" => lock # a /\ pcm3[a] = "exited"

\* C10: lock release on failure. A worker whose append raises inside the
\* critical section has released the lock when it terminates, and from then
\* on the averaging phase still ends: main gets past its joins, which it
\* can only do after every worker that waited for the lock has acquired it
\* and left.
C10_LockReleasedOnFailure ==
    /\ []C10_Safe
    /\ (\E a \in Alumnos : fin3[a] = "appendfail") ~> Unidos3

\* a worker holds the lock after another worker's append failed under it
C10_Witness ==
    \E a, b \in Alumnos :
       /\ fin3[a] = "appendfail"
       /\ lock = b
       /\ pcm3[b] = "write"

\* the result stored for task t carries the name of student t and the
\* average of that student's file (0.0 when the file was not found)
ResultadoDe(t) ==
    /\ resultados_med[t].nombre = t
    /\ IF finB[t] = "notfound" THEN resultados_med[t].media = 0
       ELSE EsMediaDe(resultados_med[t].media, archivosB[t].datos)

\* C3: pool order guarantee. In both pool.map calls the result stored at
\* index i is the result of task i, whichever pool worker ran it and in
\* whatever order the tasks finished; when pool.map has returned, every
\* index holds its result, and the parent writes medias.txt with line i
\* being "<media of student i> <student i>".
C3_PoolOrder ==
    /\ \A t \in DOMAIN resultados_gen :
          resultados_gen[t] # Pendiente => resultados_gen[t].ruta = t
    /\ \A t \in DOMAIN resultados_med :
          resultados_med[t] # Pendiente => ResultadoDe(t)
    /\ pc3b \in {"med_map", "med_wait", "write", "max_start", "max_join", "done"} =>
          /\ DOMAIN resultados_gen = AlumnosB
          /\ \A t \in AlumnosB : resultados_gen[t] # Pendiente
    /\ pc3b \in {"write", "max_start", "max_join", "done"} =>
          /\ DOMAIN resultados_med = AlumnosB
          /\ \A t \in AlumnosB : resultados_med[t] # Pendiente
    /\ pc3b \in {"max_start", "max_join", "done"} =>
          /\ mediasB.existe
          /\ Len(mediasB.datos) = 2 * N_ALUMNOS_POOL
          /\ \A t \in AlumnosB :
                /\ mediasB.datos[2 * t] = FragNombre(t)
                /\ mediasB.datos[2 * t - 1] = FragMedia(resultados_med[t].media)

\* the second averaging task has finished while the first one is still
\* running, on another pool worker
C3_Witness ==
    /\ pc3b = "med_wait"
    /\ resultados_med[1] = Pendiente
    /\ resultados_med[2] # Pendiente
    /\ \E w \in PoolWorkers : poolw[w] = 1

\* the upper-case form of a vowel
Mayuscula(v) ==
    CASE v = "a" -> "A" [] v = "e" -> "E" [] v = "i" -> "I" [] v = "o" -> "O" [] OTHER -> "U"

\* occurrences of a vowel in the text, in either case
Apariciones(v) ==
    Cardinality({j \in 1..Len(texto1) : texto1[j] \in {v, Mayuscula(v)}})

\* the entry expected for worker k from the way the worker ended
EntradaEsperada(k) ==
    CASE fin1[k] = "ok" -> [conteo |-> Apariciones(Vocales[k]), pid |-> Pid1(k)]
      [] fin1[k] = "notfound" -> [conteo |-> -1, pid |-> Pid1(k)]
      [] OTHER -> [conteo |-> -1, pid |-> 0]

\* C4: fan-in completeness. While collecting, the result map holds one
\* entry for each worker already visited; after the collection it holds
\* exactly K entries, one per vowel: the received result of a worker that
\* sent one (a count, or -1 when it found no file) and the missing-result
\* marker for a worker that ended without sending.
C4_FanInComplete ==
    /\ pc1 = "collect" => DOMAIN resultados = {Vocales[k] : k \in 1..(k1 - 1)}
    /\ pc1 \in {"report", "done"} =>
          /\ DOMAIN resultados = {Vocales[k] : k \in Workers1}
          /\ Cardinality(DOMAIN resultados) = NVocales
          /\ \A k \in Workers1 : resultados[Vocales[k]] = EntradaEsperada(k)
    /\ pc1 = "done" => Len(informe) = NVocales

\* the collection is over and the three kinds of worker ending occurred
C4_Witness ==
    /\ pc1 = "done"
    /\ \E a, b, c \in Workers1 :
          /\ fin1[a] = "ok" /\ resultados[Vocales[a]].conteo > 0
          /\ fin1[b] = "notfound"
          /\ fin1[c] = "crash"

\* what holds in every state for a worker that found no file
C6_Safe ==
    \A k \in Workers1 :
       fin1[k] = "notfound" =>
          /\ pcw1[k] \in {"send", "close", "exited"}
          /\ pcw1[k] = "send" => env1[k] = <<>>
          /\ pcw1[k] \in {"close", "exited"} =>
                env1[k] = <<[tag |-> "res", vocal |-> Vocales[k], conteo |-> -1, pid |-> Pid1(k)]>>
          /\ pcw1[k] = "exited" => <<"worker", k, "send">> \notin open1
          /\ pc1 \in {"report", "done"} => resultados[Vocales[k]].conteo = -1
          /\ pc1 = "done" =>
                \E j \in 1..Len(informe) : informe[j] = <<Vocales[k], "Error", Pid1(k)>>

\* C6: missing-resource handling in the fan-out. A worker whose file is
\* missing sends exactly one tuple, with count -1, then closes its send
\* endpoint and terminates; the run completes (main passes its joins,
\* collects and reports), and the report has the error line for that
\* worker's vowel.
C6_MissingResource ==
    /\ []C6_Safe
    /\ (\E k \in Workers1 : fin1[k] = "notfound") ~> (pc1 = "done")

\* the run has ended with an error line for a worker that found no file
\* and a count for another worker
C6_Witness ==
    /\ pc1 = "done"
    /\ \E k \in Workers1 :
          /\ fin1[k] = "notfound"
          /\ \E j \in 1..Len(informe) : informe[j] = <<Vocales[k], "Error", Pid1(k)>>
    /\ \E k \in Workers1 : fin1[k] = "ok" /\ resultados[Vocales[k]].conteo > 0

\* the steps of the vowel-counting orchestrator
PasoMain1 ==
    Main1Start \/ Main1CloseSend \/ Main1Join \/ Main1Collect \/ Main1Report

\* the report line of worker k
LineaDe1(k) == {j \in 1..Len(informe) : informe[j][1] = Vocales[k]}

\* C11 as stated: the orchestrator never blocks on a worker, so that
\* whenever it has not finished it can take its next step, even while the
\* worker it deals with is still running.
C11_NeverBlocksOnWorker ==
    pc1 # "done" => ENABLED PasoMain1

\* what holds in every state of the collection and after it
C11_Safe ==
    /\ pc1 = "collect" => ENABLED Main1Collect
    /\ pc1 \in {"collect", "report", "done"} => \A k \in Workers1 : pcw1[k] = "exited"
    /\ pc1 = "done" =>
          \A k \in Workers1 :
             /\ fin1[k] = "crash" =>
                   \A j \in LineaDe1(k) : informe[j] = <<Vocales[k], "Error", 0>>
             /\ fin1[k] = "ok" =>
                   \A j \in LineaDe1(k) :
                      informe[j] = <<Vocales[k], Apariciones(Vocales[k]), Pid1(k)>>
             /\ Cardinality(LineaDe1(k)) = 1

\* C11 (amended): fan-in isolation. The orchestrator waits without bound,
\* in its joins, for every worker to exit, so a slow worker is waited for
\* and its actual result is reported. The collection that follows never
\* blocks: for a worker that exited without delivering a result it records
\* the missing-result marker, and the report still carries the actual
\* result of every other worker; once a worker has failed the run still
\* reaches the report.
C11_FanInIsolation ==
    /\ []C11_Safe
    /\ (\E k \in Workers1 : fin1[k] = "crash") ~> (pc1 = "done")

\* the run has ended, the first worker failed without delivering and all
\* the others have their counts in the report
C11_Witness ==
    /\ pc1 = "done"
    /\ fin1[1] = "crash"
    /\ informe[1] = <<Vocales[1], "Error", 0>>
    /\ \A k \in Workers1 \ {1} :
          /\ fin1[k] = "ok"
          /\ informe[k] = <<Vocales[k], Apariciones(Vocales[k]), Pid1(k)>>
    /\ \E k \in Workers1 : fin1[k] = "ok" /\ Apariciones(Vocales[k]) > 0

\* the keys of the report lines, in the order they were printed
ClavesInforme == [j \in 1..Len(informe) |-> informe[j][1]]

\* C12: deterministic report order. The report lists its entries in
\* strictly ascending order of the vowel, and the sequence of keys is the
\* same fixed sequence a, e, i, ... in every run, whatever the order in
\* which the workers completed.
C12_DeterministicOrder ==
    pc1 = "done" =>
       /\ \A i, j \in 1..Len(informe) :
             i < j => Rango(informe[i][1]) < Rango(informe[j][1])
       /\ ClavesInforme = Vocales

\* the report has been printed after the workers completed in the reverse
\* of the order of their vowels
C12_Witness ==
    /\ pc1 = "done"
    /\ Len(informe) = NVocales
    /\ orden1 = [j \in 1..NVocales |-> NVocales + 1 - j]
    /\ informe[1][1] = "a"

\* the list a pool.map call is filling, or has returned last
ListaB == IF pc3b \in {"gen_wait", "med_map"} THEN resultados_gen ELSE resultados_med

\* what holds in every state of the pool variant
C13_Safe ==
    /\ \A t \in AlumnosB :
          /\ ejecB[t] <= 1
          /\ Cardinality({w \in PoolWorkers : poolw[w] = t}) <= 1
          /\ (\E w \in PoolWorkers : poolw[w] = t) => ejecB[t] = 0 /\ t < cola
    /\ pc3b \in {"gen_wait", "med_wait"} =>
          \A t \in AlumnosB : (ejecB[t] = 1) <=> (ListaB[t] # Pendiente)
    /\ pc3b \in {"med_map", "write"} =>
          /\ Len(ListaB) = N_ALUMNOS_POOL
          /\ \A t \in AlumnosB :
                /\ ejecB[t] = 1
                /\ ListaB[t] # Pendiente
          /\ \A w \in PoolWorkers : poolw[w] = 0
    /\ pc3b = "write" =>
          \A t \in AlumnosB :
             /\ resultados_med[t].tag = "med"
             /\ finB[t] \in {"ok", "notfound"}
             /\ finB[t] = "notfound" => resultados_med[t].media = 0

C14_JoinThenDrain ==
    /\ pc1 \in {"start", "close_send", "join"} =>
          /\ resultados = <<>>
          /\ \A k \in Workers1 : ch1[k] = env1[k]
    /\ pc1 \in {"collect", "report", "done"} =>
          \A k \in Workers1 : pcw1[k] = "exited" /\ Len(env1[k]) <= 1
    /\ pc1 = "collect" /\ env1[k1] # <<>> =>
          /\ ch1[k1] = env1[k1]
          /\ RecvOutcome(ch1[k1], Senders1(k1)) = "msg"
    /\ \A k \in Workers1 :
          (env1[k] # <<>> /\ Vocales[k] \in DOMAIN resultados) =>
             /\ resultados[Vocales[k]] =
                   [conteo |-> env1[k][1].conteo, pid |-> env1[k][1].pid]
             /\ resultados[Vocales[k]] # Marcador

\* main has collected the actual result of the first worker, which was the
\* last one to complete
C14_Witness ==
    /\ pc1 = "collect"
    /\ k1 = 2
    /\ Len(orden1) = NVocales
    /\ orden1[NVocales] = 1
    /\ env1[1] # <<>>
    /\ resultados[Vocales[1]].pid = Pid1(1)

\* in a sequence of messages the sentinel can only be the last one
SentinelAlFinal(h) == \A j \in 1..Len(h) : IsNone(h[j]) => j = Len(h)

\* h holds a sentinel
ConSentinel(h) == \E j \in 1..Len(h) : IsNone(h[j])

\* what holds in every state of the two pipelines about the sentinel
C15_Safe ==
    /\ SentinelAlFinal(hist12) /\ SentinelAlFinal(hist23) /\ SentinelAlFinal(hist4)
    /\ SentinelAlFinal(rcv2) /\ SentinelAlFinal(rcv3) /\ SentinelAlFinal(rcv4)
    /\ ConSentinel(hist12) => pc2["p1"] \in {"close", "exited"}
    /\ ConSentinel(hist23) => pc2["p2"] \in {"close", "exited"}
    /\ ConSentinel(hist4) => pc4["p1"] \in {"close", "exited"}
    /\ ConSentinel(rcv2) =>
          /\ pc2["p2"] \in {"sentinel", "close", "exited"}
          /\ pc2["p2"] \in {"close", "exited"} => ConSentinel(hist23)
          /\ pc2["p2"] = "sentinel" => ~ConSentinel(hist23)
    /\ ConSentinel(rcv3) => pc2["p3"] \in {"close", "exited"}
    /\ ConSentinel(rcv4) => pc4["p2"] \in {"close", "exited"}
    /\ \A q \in {"p1", "p2", "p3"} :
          pc2[q] = "exited" => \A e \in {"send_p1", "recv_p2", "send_p2", "recv_p3"} :
                                  <<q, e>> \notin open2
    /\ \A q \in {"p1", "p2"} :
          pc4[q] = "exited" => \A e \in {"conn_send", "conn_recv"} : <<q, e>> \notin open4

\* C15: the sentinel is the last message. On every channel of the two
\* pipelines the sender sends the sentinel after its last item and nothing
\* after it; a stage that has received the sentinel receives nothing more,
\* forwards the sentinel when it has an output, and then closes its
\* endpoints and terminates.
C15_SentinelLast ==
    /\ []C15_Safe
    /\ ConSentinel(rcv2) ~> (pc2["p2"] = "exited" /\ ConSentinel(hist23))
    /\ ConSentinel(rcv3) ~> (pc2["p3"] = "exited")
    /\ ConSentinel(rcv4) ~> (pc4["p2"] = "exited")

\* the filter of the IP pipeline has received the sentinel after two items
\* and has forwarded it after the one item that survived
C15_Witness ==
    /\ pc2["p2"] = "exited"
    /\ Len(rcv2) = 3 /\ IsNone(rcv2[3])
    /\ Len(hist23) = 2 /\ IsNone(hist23[2])
    /\ ~IsNone(hist23[1])

\* a stage of the IP pipeline ended with an uncaught exception
Abortado2(q) == pc2[q] = "crashed"

\* C16 as stated: a receiving stage whose sender closed its endpoint without
\* a sentinel never ends with an uncaught failure: it stops and ends
\* normally, and the filter, which is not the last stage, has then still
\* forwarded the sentinel.
C16_EofIsNotACrash ==
    /\ ~Abortado2("p2") /\ ~Abortado2("p3")
    /\ pc4["p2"] # "crashed"
    /\ (pc2["p1"] = "exited" /\ ~ConSentinel(hist12) /\ pc2["main"] = "done")
          => ConSentinel(hist23)
    /\ (pc4["p1"] = "exited" /\ ~ConSentinel(hist4) /\ pc4["main"] = "done")
          => pc4["p2"] = "exited"

\* the worker each endpoint of the pipelines is passed to
Destino2(e) ==
    CASE e = "send_p1" -> "p1" [] e = "recv_p3" -> "p3" [] OTHER -> "p2"

Destino4(e) == IF e = "conn_send" THEN "p1" ELSE "p2"

Extremos2 == {"send_p1", "recv_p2", "send_p2", "recv_p3"}

Extremos4 == {"conn_send", "conn_recv"}

\* C17: endpoint ownership. Every endpoint is only ever held by the
\* orchestrator and by the one worker it was passed to (the receive ends of
\* the fan-out by the orchestrator alone). Once a pipeline orchestrator has
\* executed its close steps it holds no endpoint and no endpoint has two
\* holders; once the fan-out orchestrator has started its workers it holds
\* only receive ends, while collecting exactly those of the workers not yet
\* visited, and none after the collection, whichever way each receive ended.
C17_EndpointOwnership ==
    /\ \A e \in Extremos2 : Holders2(e) \subseteq {"main", Destino2(e)}
    /\ \A e \in Extremos4 : Holders4(e) \subseteq {"main", Destino4(e)}
    /\ pc2["main"] \in {"join_p1", "join_p2", "join_p3", "done"} =>
          \A e \in Extremos2 : "main" \notin Holders2(e) /\ Cardinality(Holders2(e)) <= 1
    /\ pc4["main"] \in {"join_p1", "join_p2", "done"} =>
          \A e \in Extremos4 : "main" \notin Holders4(e) /\ Cardinality(Holders4(e)) <= 1
    /\ \A h \in open1 : h[1] = "worker" => h[3] = "send"
    /\ pc1 \in {"join", "collect", "report", "done"} =>
          \A k \in Workers1 : <<"main", k, "send">> \notin open1
    /\ pc1 = "join" =>
          \A k \in Workers1 : <<"main", k, "recv">> \in open1
    /\ pc1 = "collect" =>
          \A k \in Workers1 : (<<"main", k, "recv">> \in open1) <=> (k >= k1)
    /\ pc1 \in {"report", "done"} => open1 = {}
    /\ pc2["main"] = "done" => open2 = {}
    /\ pc4["main"] = "done" => open4 = {}

\* the orchestrator of the IP pipeline has executed its four close steps
\* while the three workers still hold their endpoints
C17_Witness ==
    /\ pc2["main"] = "join_p1"
    /\ open2 = {<<"p1", "send_p1">>, <<"p2", "recv_p2">>, <<"p2", "send_p2">>,
                <<"p3", "recv_p3">>}

\* a worker of a pipeline that main has not started yet
SinArrancar2(q) == pc2[q] = "created"

SinArrancar4(q) == pc4[q] = "created"

Arrancado(st) == st \notin {"none", "idle"}

\* C19: phase barriers. In the lock variant no averaging worker is started
\* before every generator has exited, and the max finder is started only
\* when every averaging worker has exited, so that every line that is
\* appended to medias.txt is already there; in the pool variant no
\* averaging task is queued before the first pool.map has returned the
\* result of every generating task, and the max finder is started only
\* after the parent has written the line of every result.
C19_PhaseBarriers ==
    /\ (\E a \in Alumnos : Arrancado(pcm3[a])) =>
          \A b \in Alumnos : pcg3[b] = "exited" /\ archivos[b].existe
    /\ Arrancado(pcmax) =>
          /\ \A a \in Alumnos : pcm3[a] = "exited" /\ pcg3[a] = "exited"
          /\ lock = 0
          /\ \A a \in Alumnos : fin3[a] = "ok" => Cardinality(LineasDe(a)) = 1
          /\ BienFormado
    /\ pc3b \in {"med_wait", "write", "max_start", "max_join", "done"} =>
          \A t \in AlumnosB : resultados_gen[t] # Pendiente /\ archivosB[t].existe
    /\ (pc3b = "gen_wait" \/ pc3b = "gen_map") => resultados_med = <<>>
    /\ Arrancado(pcmaxB) =>
          /\ pc3b \in {"max_join", "done"}
          /\ \A w \in PoolWorkers : poolw[w] = 0
          /\ mediasB = Fichero(LineasMedias(resultados_med))
          /\ \A t \in AlumnosB : resultados_med[t] # Pendiente

\* the max finder of the lock variant is running after every averaging
\* worker has appended its line
C19_Witness ==
    /\ pc3 = "max_join"
    /\ pcmax = "run"
    /\ \A a \in Alumnos : fin3[a] = "ok"
    /\ Len(medias.datos) = 2 * N_ALUMNOS

\* the values the two functions report for a missing input
FalloConteo == ConteoTras("notfound", Vocales[1], <<>>)

FalloMedia == calcular_media_pool("notfound", Ausente, 1).media

\* C20 as stated: the value reported for a missing input is never a value
\* that successful work on an existing input produces, for the count of
\* contar_vocal_pipe and for the average of calcular_media_pool.
C20_MarkerDistinguishable ==
    /\ fin1[1] = "ok" => conteo1[1] # FalloConteo
    /\ fin1[1] = "notfound" => conteo1[1] = FalloConteo
    /\ (finB[1] = "ok" /\ pc3b = "idle") => resultados_med[1].media # FalloMedia
    /\ (finB[1] = "notfound" /\ pc3b = "idle") => resultados_med[1].media = FalloMedia

\* worker a is reading its file or computing its average
Calculando(a) == pcm3[a] = "run"

\* C21: only the append is serialized. A worker holds the lock only between
\* the entry of its with block and the end of its one write: never while it
\* reads its file or computes its average, which it has done before, never
\* while it waits and never after it has left the block; while it holds the
\* lock it has at most its one line in medias.txt. The other workers are
\* free to read and compute meanwhile.
C21_OnlyAppendSerialized ==
    \A a \in Alumnos :
       /\ (Calculando(a) \/ pcm3[a] \in {"none", "idle", "lock", "exited"}) => lock # a
       /\ lock = a =>
             /\ pcm3[a] \in {"open", "write", "write_nl", "release"}
             /\ media3[a] = Media(archivos[a].datos)
             /\ Cardinality(LineasDe(a)) = (IF pcm3[a] = "release" THEN 1 ELSE 0)
             /\ fin3[a] = "none"

\* a worker is writing its line under the lock while another worker is
\* still reading its file
C21_Witness ==
    \E a, b \in Alumnos :
       /\ a # b
       /\ lock = a
       /\ pcm3[a] = "write"
       /\ Calculando(b)

\* the stage of its life a worker is in, from its own position: 0 created,
\* 1 started and running, 2 ended
Etapa(st) ==
    IF st \in {"none", "idle", "created"} THEN 0
    ELSE IF st \in {"exited", "crashed"} THEN 2
    ELSE 1

\* whether main has gone past its join of a worker
Unido1(k) == pc1 \in {"collect", "report", "done"} \/ (pc1 = "join" /\ k < k1)

Unido2(q) ==
    CASE q = "p1" -> pc2["main"] \in {"join_p2", "join_p3", "done"}
      [] q = "p2" -> pc2["main"] \in {"join_p3", "done"}
      [] OTHER -> pc2["main"] = "done"

Unido4(q) ==
    IF q = "p1" THEN pc4["main"] \in {"join_p2", "done"} ELSE pc4["main"] = "done"

UnidoGen(a) ==
    \/ pc3 \in {"med_start", "med_join", "max_start", "max_join", "done"}
    \/ (pc3 = "gen_join" /\ a < i3)

UnidoMed(a) ==
    \/ pc3 \in {"max_start", "max_join", "done"}
    \/ (pc3 = "med_join" /\ a < i3)

\* the life of each worker: 0 created, 1 running, 2 ended, 3 joined
Vida1(k) == IF Unido1(k) THEN 3 ELSE Etapa(pcw1[k])
Vida2(q) == IF Unido2(q) THEN 3 ELSE Etapa(pc2[q])
Vida4(q) == IF Unido4(q) THEN 3 ELSE Etapa(pc4[q])
VidaGen(a) == IF UnidoGen(a) THEN 3 ELSE Etapa(pcg3[a])
VidaMed(a) == IF UnidoMed(a) THEN 3 ELSE Etapa(pcm3[a])
VidaMax == IF pc3 = "done" THEN 3 ELSE Etapa(pcmax)
VidaMaxB == IF pc3b = "done" THEN 3 ELSE Etapa(pcmaxB)

\* every join found its worker ended, and main ends or reports only with
\* every worker joined
C22_Safe ==
    /\ \A k \in Workers1 : Unido1(k) => Etapa(pcw1[k]) = 2
    /\ \A q \in {"p1", "p2", "p3"} : Unido2(q) => Etapa(pc2[q]) = 2
    /\ \A q \in {"p1", "p2"} : Unido4(q) => Etapa(pc4[q]) = 2
    /\ \A a \in Alumnos : (UnidoGen(a) => Etapa(pcg3[a]) = 2)
                          /\ (UnidoMed(a) => Etapa(pcm3[a]) = 2)
    /\ pc3 = "done" => Etapa(pcmax) = 2
    /\ pc3b = "done" => Etapa(pcmaxB) = 2
    /\ pc1 \in {"report", "done"} => \A k \in Workers1 : Vida1(k) = 3
    /\ pc2["main"] = "done" => \A q \in {"p1", "p2", "p3"} : Vida2(q) = 3
    /\ pc4["main"] = "done" => \A q \in {"p1", "p2"} : Vida4(q) = 3
    /\ pc3 = "done" => \A a \in Alumnos : VidaGen(a) = 3 /\ VidaMed(a) = 3

\* no step takes a worker back to an earlier stage of its life
C22_Avanza ==
    /\ \A k \in Workers1 : Vida1(k)' >= Vida1(k)
    /\ \A q \in {"p1", "p2", "p3"} : Vida2(q)' >= Vida2(q)
    /\ \A q \in {"p1", "p2"} : Vida4(q)' >= Vida4(q)
    /\ \A a \in Alumnos : VidaGen(a)' >= VidaGen(a) /\ VidaMed(a)' >= VidaMed(a)
    /\ VidaMax' >= VidaMax
    /\ VidaMaxB' >= VidaMaxB

\* C22: worker lifecycle. Every worker process only moves forward through
\* created, running (started), ended and joined, and never returns to an
\* earlier stage; a join only returns for a worker that has ended, and every
\* worker an orchestrator has started has been joined by it when the
\* orchestrator prints its final report or ends.
C22_WorkerLifecycle ==
    /\ []C22_Safe
    /\ [][C22_Avanza]_vars

\* the orchestrator of the IP pipeline has ended with its three workers
\* joined, after a run that carried items
C22_Witness ==
    /\ pc2["main"] = "done"
    /\ \A q \in {"p1", "p2", "p3"} : Vida2(q) = 3 /\ pc2[q] = "exited"
    /\ Len(rcv3) >= 2

\* in no state of a run of the IP pipeline that has not ended are all the
\* processes blocked, and the run has ended only with every worker ended
C23_Safe ==
    /\ (pc2["main"] \notin {"idle", "done"}) => ENABLED Next2
    /\ pc2["main"] = "done" =>
          /\ \A q \in {"p1", "p2", "p3"} : pc2[q] = "exited"
          /\ ch12 = <<>> /\ ch23 = <<>>
          /\ Len(Items(hist12)) = n2

\* C23: deadlock-freedom of the IP pipeline. For every N from 0 up, every
\* capacity of the pipes from one message up and every fair interleaving,
\* no state is reached in which every live process is blocked, and the run
\* always ends: the source, the filter and the sink terminate and the three
\* joins of the orchestrator return.
C23_DeadlockFree ==
    /\ []C23_Safe
    /\ <>(pc2["main"] = "done")

\* a run over the largest N with pipes of capacity one has ended
C23_Witness ==
    /\ pc2["main"] = "done"
    /\ cap2 = 1
    /\ n2 = MaxN
    /\ Len(out2) >= 2

\* how many lines "<m> <a>" a medias file holds
CuantasLineas(f, m, a) ==
    Cardinality({j \in 1..(Len(f.datos) \div 2) :
                    f.datos[2 * j - 1].v = m /\ f.datos[2 * j].v = a})

\* the averages that appear in a medias file
MediasEn(f) == {f.datos[2 * j - 1].v : j \in 1..(Len(f.datos) \div 2)}

\* both variants found each student file as it was given: present or absent
\* all along, and no append failed
MismosFicheros ==
    \A a \in Alumnos :
       /\ fin3[a] \in {"ok", "notfound"}
       /\ (fin3[a] = "notfound") <=> ~archivos[a].existe
       /\ (finB[a] = "notfound") <=> ~archivosB[a].existe

\* C24 as stated: run on the same student files, the lock variant and the
\* pool variant leave medias.txt with the same multiset of lines for the
\* students they were both given, the pool variant in task order.
C24_SameLines ==
    (pc3 = "done" /\ pc3b = "done" /\ MismosFicheros) =>
       /\ \A a \in Alumnos : \A m \in MediasEn(medias) \cup MediasEn(mediasB) :
             CuantasLineas(medias, m, a) = CuantasLineas(mediasB, m, a)
       /\ \A t \in AlumnosB : mediasB.datos[2 * t] = FragNombre(t)

====
